---- MODULE Spec2Model ----
(***************************************************************************)
(* Update check / pull coordination of automaker's updates routes.         *)
(*                                                                         *)
(* The handlers of apps/server/src/routes/updates (info, check, pull, and  *)
(* the earlier check and pull handlers that manage the temporary remote    *)
(* inline) are modelled as processes whose steps are the awaited git       *)
(* commands; the git repository of the installation is the shared state.   *)
(***************************************************************************)
EXTENDS Integers, Sequences, FiniteSets, TLC

VARIABLES
    gitInstalled,    \* `git --version` succeeds
    insideWorkTree,  \* `git rev-parse --is-inside-work-tree` succeeds in the install path
    dirty,           \* `git status --porcelain` prints something
    head,            \* the checked-out revision (NoCommit: unborn HEAD)
    upstream,        \* tip of main in the upstream repository
    settings,        \* the global settings snapshot
    remotes,         \* remote name -> Absent or [url, ref] (ref: the fetched <name>/main)
    op,              \* per invocation slot: the handler running
    pc,              \* per invocation slot: the awaited step
    loc,             \* per invocation slot: the handler's local constants
    resp,            \* per invocation slot: the response sent
    cmds,            \* per invocation slot: the git commands spawned so far
    calls,           \* number of invocations started
    prior,           \* per invocation slot: the handler and response of its previous request
    urlArg,          \* the argument isValidGitUrl is called with
    verdict,         \* what isValidGitUrl returned for it
    helper,          \* the repository helper called on its own, and its outcome
    store,           \* the UI updates store: its state fields
    requests,        \* the store's outstanding API requests, counted by kind
    emitted,         \* the update-pulled notifications emitted, in order
    called,          \* the last store action called: whether it started, what it returned
    settled,         \* the last API request settled: its response, what the action returned
    env,             \* the server process's platform and environment variables
    extendedPath,    \* common.ts's extendedPath, once the module is loaded
    manifests,       \* the package.json of each directory above the module
    moduleDir,       \* the directory of the running module
    currentDir,      \* getAutomakerRoot: the directory being examined
    automakerRoot,   \* getAutomakerRoot: what it returned
    hook,            \* the polling hook instance: its props, state and refs
    timers,          \* the interval timers set and not cleared
    toasts,          \* the toasts shown and dismissed, in order
    pending          \* the hook's check and pull calls awaiting the API

vars == <<gitInstalled, insideWorkTree, dirty, head, upstream, settings, remotes,
          op, pc, loc, resp, cmds, calls, prior, urlArg, verdict,
          helper, store, requests, emitted, called, settled,
          env, extendedPath, manifests, moduleDir, currentDir, automakerRoot,
          hook, timers, toasts, pending>>

\* the update routes and the installation they serve
serverVars == <<gitInstalled, insideWorkTree, dirty, head, upstream, settings, remotes,
                op, pc, loc, resp, cmds, calls, prior, urlArg, verdict>>

\* the UI updates store
storeVars == <<store, requests, emitted, called, settled>>

\* the server process: its environment and the installation root it finds
processVars == <<env, extendedPath, manifests, moduleDir, currentDir, automakerRoot>>

\* the UI polling hook
hookVars == <<hook, timers, toasts, pending>>

\* what no step of a handler changes
repoVars == <<gitInstalled, insideWorkTree, dirty, upstream, settings, urlArg, verdict,
              helper, store, requests, emitted, called, settled,
              env, extendedPath, manifests, moduleDir, currentDir, automakerRoot,
              hook, timers, toasts, pending>>

(* ------------------------------ bounds --------------------------------- *)

\* invocations started in one behaviour
MaxCalls == 2

\* characters following the prefix in the URLs isValidGitUrl is applied to
MaxTail == 2

\* the invocation slots, and the one slot used when requests do not overlap
Procs == {"p1", "p2"}
SeqProcs == {"p1"}

(* ----------------------------- revisions ------------------------------- *)

NoCommit == "none"

\* History: a1f0 <- b2e1 <- c3d2 on the main line, d4c3 a second child of a1f0.
Commits == {"a1f0", "b2e1", "c3d2", "d4c3"}

Parent(c) ==
    CASE c = "b2e1" -> "a1f0"
      [] c = "c3d2" -> "b2e1"
      [] c = "d4c3" -> "a1f0"
      [] OTHER -> NoCommit

\* `git rev-parse --short`: the abbreviated revision
Short(c) ==
    CASE c = "a1f0" -> "a1f"
      [] c = "b2e1" -> "b2e"
      [] c = "c3d2" -> "c3d"
      [] c = "d4c3" -> "d4c"
      [] OTHER -> NoCommit

RECURSIVE IsAncestor(_, _)
\* `git merge-base --is-ancestor x y` exits 0: x is y or an ancestor of y
IsAncestor(x, y) ==
    IF y = NoCommit THEN FALSE
    ELSE IF x = y THEN TRUE
    ELSE IsAncestor(x, Parent(y))

StrictAncestor(x, y) == x # y /\ IsAncestor(x, y)

Diverged(x, y) == ~IsAncestor(x, y) /\ ~IsAncestor(y, x)

(* ------------------------------- text ---------------------------------- *)

\* A text is a sequence of tokens; String.includes is containment of a
\* contiguous run of tokens (tokens differing in case are different tokens).
Includes(text, part) ==
    \E i \in 1..(Len(text) - Len(part) + 1) :
        SubSeq(text, i, i + Len(part) - 1) = part

StartsWith(text, part) ==
    /\ Len(part) <= Len(text)
    /\ SubSeq(text, 1, Len(part)) = part

NoText == << >>

(* ------------------------------- URLs ---------------------------------- *)

\* A URL is a sequence of characters.
DefaultUrl == <<"h","t","t","p","s",":","/","/","g","h","/","a",".","g","i","t">>
SshUrl     == <<"g","i","t","@","h",":","p",".","g","i","t">>
EvilUrl    == <<"h","t","t","p","s",":","/","/","e","/","x",";"," ","r","m">>

ValidProtocols ==
    { <<"h","t","t","p","s",":","/","/">>,
      <<"g","i","t","@">>,
      <<"g","i","t",":","/","/">>,
      <<"s","s","h",":","/","/">> }

\* the characters of /[;`|&<>()$!\\[\] ]/ (backtick and backslash written as words)
ShellChars == {";", "backtick", "|", "&", "<", ">", "(", ")", "$", "!", "backslash",
               "[", "]", " "}

isValidGitUrlPrefixOnly(url) ==
    \E pre \in ValidProtocols : StartsWith(url, pre)

isValidGitUrl(url) ==
    LET startsWithValidProtocol == \E pre \in ValidProtocols : StartsWith(url, pre)
        hasShellChars == \E i \in 1..Len(url) : url[i] \in ShellChars
    IN  startsWithValidProtocol /\ ~hasShellChars

\* the strings isValidGitUrl is applied to: an optional leading character, a
\* prefix (accepted, nearly accepted, or none), and up to MaxTail characters,
\* among them every character of the class and some outside it
UrlPrefixes ==
    ValidProtocols \cup
    { << >>, <<"h","t","t","p",":","/","/">>, <<"H","T","T","P","S",":","/","/">>,
      <<"f","i","l","e",":","/","/">>, <<"g","i","t">>, <<"s","s","h",":","/">> }

UrlChars ==
    {";", "backtick", "|", "&", "<", ">", "(", ")", "$", "!", "backslash", "[", "]", " ",
     "h", "/", ".", "quote", "#", "tab"}

SeqsUpTo(S, n) == UNION {[1..k -> S] : k \in 0..n}

ExampleUrls ==
    { <<"h","t","t","p","s",":","/","/","h","o","s","t","/","p","a","t","h",".","g","i","t">>,
      <<"g","i","t","@","h","o","s","t",":","p","a","t","h",".","g","i","t">>,
      <<"s","s","h",":","/","/","h","o","s","t","/","p","a","t","h">>,
      <<"g","i","t",":","/","/","h","o","s","t","/","p","a","t","h">>,
      <<"h","t","t","p","s",":","/","/","e","v","i","l",".","c","o","m","/","x",";"," ","r","m"," ","-","r","f"," ","/">> }

UrlInputs ==
    ExampleUrls \cup
    { lead \o pre \o tail :
        lead \in {<< >>, <<"x">>}, pre \in UrlPrefixes, tail \in SeqsUpTo(UrlChars, MaxTail) }

(* ----------------------------- settings -------------------------------- *)

NoAutoUpdate == [present |-> FALSE, enabled |-> TRUE, checkIntervalMinutes |-> 0,
                 upstreamUrl |-> NoText]

AutoUpdate(url) == [present |-> TRUE, enabled |-> FALSE, checkIntervalMinutes |-> 30,
                    upstreamUrl |-> url]

\* autoUpdate absent, set to a valid URL, set to URLs that fail validation,
\* and present with an empty upstreamUrl
SettingsSnapshots ==
    {NoAutoUpdate, AutoUpdate(SshUrl), AutoUpdate(EvilUrl), AutoUpdate(NoText)}

\* settings.autoUpdate?.upstreamUrl || default URL
SourceUrl(s) ==
    IF s.present /\ s.upstreamUrl # NoText THEN s.upstreamUrl ELSE DefaultUrl

(* ------------------------- the git commands ---------------------------- *)

\* remote names: the earlier check handler's, the earlier pull handler's, and
\* the reserved name of withTempGitRemote
CheckRemoteName == "automaker-update-check"
PullRemoteName == "automaker-update-pull"
ReservedRemoteName == "automaker-temp-remote"
RemoteNames == {CheckRemoteName, PullRemoteName, ReservedRemoteName}

AbsentRemote == [present |-> FALSE, url |-> NoText, ref |-> NoCommit]

\* the message of the error execAsync rejects with
CommandFailed(cmd, stderr) == <<"Command", "failed:", "git">> \o cmd \o stderr

\* `git remote remove <name>`: fails when there is no such remote
GitRemoteRemove(rem, name) ==
    [ok |-> rem[name].present,
     remotes |-> [rem EXCEPT ![name] = AbsentRemote],
     message |-> CommandFailed(<<"remote", "remove">>, <<"error:", "No", "such", "remote">>)]

\* `git remote add <name> "<url>"`: fails when the remote exists
GitRemoteAdd(rem, name, url) ==
    [ok |-> ~rem[name].present,
     remotes |-> IF rem[name].present THEN rem
                 ELSE [rem EXCEPT ![name] = [present |-> TRUE, url |-> url, ref |-> NoCommit]],
     message |-> CommandFailed(<<"remote", "add">> \o url,
                               <<"error:", "remote", "already", "exists", ".">>)]

\* a URL git can resolve to the upstream repository
Resolvable(url) == \A i \in 1..Len(url) : url[i] \notin {" ", ";"}

\* what a failing fetch prints: git's own lines and whatever the server sent
FetchErrors ==
    { <<"fatal:", "unable", "to", "access">>,
      <<"remote:", "not", "possible", "to", "fast-forward">>,
      <<"remote:", "CONFLICT">>,
      <<"remote:", "CONFLICT", "not", "possible", "to", "fast-forward">> }

\* `git fetch <name> main`
GitFetch(rem, name, tip, reachable, stderr) ==
    LET ok == rem[name].present /\ Resolvable(rem[name].url) /\ reachable
    IN  [ok |-> ok,
         remotes |-> IF ok THEN [rem EXCEPT ![name].ref = tip] ELSE rem,
         message |-> CommandFailed(<<"fetch">>,
                        IF rem[name].present THEN stderr
                        ELSE <<"fatal:", "does", "not", "appear", "to", "be", "a", "git",
                               "repository">>)]

\* `git rev-parse <name>/main`
GitRevParseRemote(rem, name) ==
    [ok |-> rem[name].present /\ rem[name].ref # NoCommit,
     stdout |-> rem[name].ref,
     message |-> CommandFailed(<<"rev-parse">>,
                    <<"fatal:", "ambiguous", "argument:", "unknown", "revision">>)]

\* `git rev-parse HEAD`
GitRevParseHead(h) ==
    [ok |-> h # NoCommit,
     stdout |-> h,
     message |-> CommandFailed(<<"rev-parse", "HEAD">>,
                    <<"fatal:", "ambiguous", "argument", "HEAD">>)]

AlreadyUpToDate == <<"Already", "up", "to", "date">>

GitMergeNoFfCheck(h, ref) ==
    IF ref = NoCommit
    THEN [ok |-> FALSE, head |-> h, stdout |-> NoText,
          message |-> CommandFailed(<<"merge", "--ff-only">>,
                         <<"merge:", "not", "something", "we", "can", "merge">>)]
    ELSE IF IsAncestor(ref, h)
    THEN [ok |-> TRUE, head |-> h, stdout |-> AlreadyUpToDate \o <<".">>,
          message |-> NoText]
    ELSE [ok |-> TRUE, head |-> IF IsAncestor(h, ref) THEN ref ELSE "merge-commit",
          stdout |-> <<"Updating">>, message |-> NoText]

\* `git merge <name>/main --ff-only`
GitMerge(h, ref) ==
    IF ref = NoCommit
    THEN [ok |-> FALSE, head |-> h, stdout |-> NoText,
          message |-> CommandFailed(<<"merge", "--ff-only">>,
                         <<"merge:", "not", "something", "we", "can", "merge">>)]
    ELSE IF IsAncestor(ref, h)
    THEN [ok |-> TRUE, head |-> h, stdout |-> AlreadyUpToDate \o <<".">>,
          message |-> NoText]
    ELSE IF IsAncestor(h, ref)
    THEN [ok |-> TRUE, head |-> ref, stdout |-> <<"Updating", "Fast-forward">>,
          message |-> NoText]
    ELSE [ok |-> FALSE, head |-> h, stdout |-> NoText,
          message |-> CommandFailed(<<"merge", "--ff-only">>,
                         <<"fatal:", "Not", "possible", "to", "fast-forward", ",",
                           "aborting", ".">>)]

(* ---------------------------- the handlers ----------------------------- *)

\* check, pull, info: the current handlers; checkInline, pullInline: the
\* earlier handlers, which manage the temporary remote themselves
Ops == {"check", "pull", "info", "checkInline", "pullInline"}
CheckOps == {"check", "checkInline"}
PullOps == {"pull", "pullInline"}

\* the awaited steps of each handler, in order
Flow(o) ==
    CASE o = "check" ->
           <<"isGitAvailable", "isGitRepo", "getSettings", "localVersion",
             "localVersionShort", "removeExisting", "remoteAdd", "fetch",
             "remoteVersion", "remoteVersionShort", "mergeBase", "cleanup", "respond">>
      [] o = "checkInline" ->
           <<"isGitAvailable", "isGitRepo", "getSettings", "localVersion",
             "localVersionShort", "removeExisting", "remoteAdd", "fetch",
             "remoteVersion", "remoteVersionShort", "cleanup", "mergeBase", "respond">>
      [] o = "pull" ->
           <<"isGitAvailable", "isGitRepo", "hasLocalChanges", "getSettings",
             "removeExisting", "remoteAdd", "previousVersion", "previousVersionShort",
             "fetch", "merge", "newVersion", "newVersionShort", "cleanup", "respond">>
      [] o = "pullInline" ->
           <<"isGitAvailable", "isGitRepo", "hasLocalChanges", "getSettings",
             "previousVersion", "previousVersionShort", "removeExisting", "remoteAdd",
             "fetch", "currentBranch", "merge", "cleanup", "newVersion",
             "newVersionShort", "respond">>
      [] o = "info" ->
           <<"getSettings", "isGitAvailable", "isGitRepo", "currentCommit",
             "currentCommitShort", "currentBranch", "hasLocalChanges", "respond">>

\* the steps inside the handler's inner try block (the temporary-remote scope
\* and, in the earlier handlers, what follows it up to the response)
InTry(o) ==
    CASE o = "check" -> {"remoteAdd", "fetch", "remoteVersion", "remoteVersionShort"}
      [] o = "checkInline" ->
           {"remoteAdd", "fetch", "remoteVersion", "remoteVersionShort", "cleanup"}
      [] o = "pull" ->
           {"remoteAdd", "previousVersion", "previousVersionShort", "fetch", "merge",
            "newVersion", "newVersionShort"}
      [] o = "pullInline" ->
           {"remoteAdd", "fetch", "currentBranch", "merge", "cleanup", "newVersion",
            "newVersionShort"}
      [] OTHER -> {}

\* the handlers that validate the URL before using it
Validating == {"check", "pull"}

\* the handlers whose temporary remote is managed by withTempGitRemote: it
\* removes the remote on every exit path and ignores the failure of that remove
UsesWithTempGitRemote == {"check", "pull"}

\* the name of the temporary remote the handler uses
TempRemoteName(o) ==
    CASE o = "checkInline" -> CheckRemoteName
      [] o = "pullInline" -> PullRemoteName
      [] OTHER -> ReservedRemoteName

\* the steps of the temporary-remote scope: remove-if-present, add, body,
\* and the remove that ends it on the normal and on the error path
InScope(o) ==
    (InTry(o) \cup {"removeExisting", "mergeBase", "cleanup", "cleanupOnError"})
        \ (CASE o = "checkInline" -> {"mergeBase"}
             [] o = "pullInline" -> {"newVersion", "newVersionShort"}
             [] OTHER -> {})

Index(o, l) == CHOOSE i \in 1..Len(Flow(o)) : Flow(o)[i] = l

After(o, l) == Flow(o)[Index(o, l) + 1]

\* the step after l; the ancestry query is skipped when local equals remote
NextLabel(o, l, nl) ==
    LET n == After(o, l)
    IN  IF n = "mergeBase" /\ nl.localVersion = nl.remoteVersion
        THEN After(o, "mergeBase")
        ELSE n

(* ---------------------------- the responses ---------------------------- *)

NoResult == [kind |-> "none"]

NoResponse == [sent |-> FALSE, status |-> 0, success |-> FALSE, error |-> NoText,
               result |-> NoResult]

Failure(status, msg) ==
    [sent |-> TRUE, status |-> status, success |-> FALSE, error |-> msg,
     result |-> NoResult]

Ok(result) ==
    [sent |-> TRUE, status |-> 200, success |-> TRUE, error |-> NoText,
     result |-> result]

GitMissing == <<"Git", "is", "not", "installed", "or", "not", "available", "in", "PATH">>
NotARepository == <<"Automaker", "installation", "is", "not", "a", "git", "repository">>
LocalChangesPresent ==
    <<"You", "have", "local", "uncommitted", "changes", ".", "Please", "commit", "or",
      "stash", "them", "before", "updating", ".">>
InvalidUrl == <<"Invalid", "upstream", "URL", "format">>
DivergedBranches ==
    <<"Cannot", "fast-forward", "merge", ".", "Your", "local", "branch", "has",
      "diverged", "from", "upstream", ".", "Please", "resolve", "manually", ".">>
MergeConflict ==
    <<"Merge", "conflict", "detected", ".", "Please", "resolve", "conflicts",
      "manually", ".">>
PullFailedPrefix == <<"Failed", "to", "pull", "updates:">>
FetchFailedPrefix == <<"Could", "not", "fetch", "from", "upstream:">>
SettingsError == <<"ENOENT:", "settings">>

FastForwardMarker == <<"not", "possible", "to", "fast-forward">>
ConflictMarker == <<"CONFLICT">>

ClassifyConflictFirst(errorMsg) ==
    IF Includes(errorMsg, ConflictMarker) THEN Failure(400, MergeConflict)
    ELSE IF Includes(errorMsg, FastForwardMarker) THEN Failure(400, DivergedBranches)
    ELSE Failure(500, PullFailedPrefix \o errorMsg)

\* the pull handler's catch (pullError): the failure envelope for errorMsg
Classify(errorMsg) ==
    IF Includes(errorMsg, FastForwardMarker) THEN Failure(400, DivergedBranches)
    ELSE IF Includes(errorMsg, ConflictMarker) THEN Failure(400, MergeConflict)
    ELSE Failure(500, PullFailedPrefix \o errorMsg)

FetchFailedEscalated(l) ==
    Failure(500, FetchFailedPrefix \o l.err)

\* the check handler's catch (fetchError): a success envelope carrying the error
FetchFailed(l) ==
    Ok([kind |-> "check", updateAvailable |-> FALSE,
        localVersion |-> l.localVersion, localVersionShort |-> l.localVersionShort,
        remoteVersion |-> NoCommit, remoteVersionShort |-> NoCommit,
        sourceUrl |-> l.sourceUrl, error |-> FetchFailedPrefix \o l.err])

CheckResult(l) ==
    Ok([kind |-> "check", updateAvailable |-> l.updateAvailable,
        localVersion |-> l.localVersion, localVersionShort |-> l.localVersionShort,
        remoteVersion |-> l.remoteVersion, remoteVersionShort |-> l.remoteVersionShort,
        sourceUrl |-> l.sourceUrl, error |-> NoText])

PullResultInverted(l) ==
    LET alreadyUpToDate == l.previousVersion # l.newVersion
    IN  Ok([kind |-> "pull", success |-> TRUE,
            previousVersion |-> l.previousVersion,
            previousVersionShort |-> l.previousVersionShort,
            newVersion |-> l.newVersion, newVersionShort |-> l.newVersionShort,
            alreadyUpToDate |-> alreadyUpToDate,
            message |-> IF alreadyUpToDate THEN AlreadyUpToDate
                        ELSE <<"Updated", "from", l.previousVersionShort, "to",
                               l.newVersionShort>>])

\* the result of a pull whose merge succeeded
PullResult(l) ==
    LET alreadyUpToDate ==
            Includes(l.mergeOutput, AlreadyUpToDate) \/ l.previousVersion = l.newVersion
    IN  Ok([kind |-> "pull", success |-> TRUE,
            previousVersion |-> l.previousVersion,
            previousVersionShort |-> l.previousVersionShort,
            newVersion |-> l.newVersion, newVersionShort |-> l.newVersionShort,
            alreadyUpToDate |-> alreadyUpToDate,
            message |-> IF alreadyUpToDate THEN AlreadyUpToDate
                        ELSE <<"Updated", "from", l.previousVersionShort, "to",
                               l.newVersionShort>>])

\* settings.autoUpdate || { enabled: true, checkIntervalMinutes: 15, upstreamUrl: default }
AutoUpdateSettings(s) ==
    IF s.present THEN s
    ELSE [present |-> FALSE, enabled |-> TRUE, checkIntervalMinutes |-> 15,
          upstreamUrl |-> DefaultUrl]

InfoResult(l, s) ==
    Ok([kind |-> "info", isGitRepo |-> l.isRepo, gitAvailable |-> l.gitAvailable,
        currentCommit |-> l.currentCommit, currentCommitShort |-> l.currentCommitShort,
        currentBranch |-> l.currentBranch, hasLocalChanges |-> l.localChanges,
        upstreamUrl |-> AutoUpdateSettings(s).upstreamUrl,
        autoUpdateEnabled |-> AutoUpdateSettings(s).enabled,
        checkIntervalMinutes |-> AutoUpdateSettings(s).checkIntervalMinutes])

\* the response a handler sends when its last step has succeeded
Success(o, l, s) ==
    CASE o \in CheckOps -> CheckResult(l)
      [] o \in PullOps -> PullResult(l)
      [] OTHER -> InfoResult(l, s)

CaughtAsFailure(o, l) ==
    Classify(l.err)

\* the response of the inner catch block
Caught(o, l) ==
    IF o \in PullOps THEN Classify(l.err) ELSE FetchFailed(l)

(* ------------------------ the repository helpers ----------------------- *)

\* what a helper call comes to: a returned boolean, or the rejection of the
\* process error
Returned(b) == [raised |-> FALSE, value |-> b]
Raised == [raised |-> TRUE, value |-> FALSE]

\* isGitAvailable(): try { git --version; true } catch { false }
isGitAvailable(installed) == Returned(installed)

\* isGitRepo(repoPath): try { git rev-parse --is-inside-work-tree; true } catch { false }
isGitRepo(installed, inside) == Returned(installed /\ inside)

\* hasLocalChanges(repoPath): git status --porcelain, awaited without a catch
hasLocalChanges(installed, inside, changed) ==
    IF installed /\ inside THEN Returned(changed) ELSE Raised

HelperNames == {"isGitAvailable", "isGitRepo", "hasLocalChanges"}

NoHelperCall == [name |-> "none", outcome |-> Returned(FALSE)]

(* -------------------------- the UI updates store ------------------------ *)

\* store actions called in one behaviour
MaxStoreCalls == 3

NoInfo == [kind |-> "none"]

\* initialState; null is NoText for the error, NoCommit for a revision, 0 for a date
InitialState ==
    [info |-> NoInfo, updateAvailable |-> FALSE,
     remoteVersion |-> NoCommit, remoteVersionShort |-> NoCommit,
     isLoadingInfo |-> FALSE, isChecking |-> FALSE, isPulling |-> FALSE,
     error |-> NoText, lastChecked |-> 0, lastPulled |-> 0]

ApiKinds == {"info", "check", "pull"}

NoRequests == [k \in ApiKinds |-> 0]

\* what an action returns: null, a boolean, or a result
RetNull == [null |-> TRUE, flag |-> FALSE, result |-> NoResult]
RetBool(b) == [null |-> FALSE, flag |-> b, result |-> NoResult]
RetResult(r) == [null |-> FALSE, flag |-> FALSE, result |-> r]

\* an UpdateApiResponse the API client resolves with, or the value it rejects with
Resolved(success, result, error) ==
    [outcome |-> "resolved", success |-> success, result |-> result, error |-> error,
     isError |-> FALSE]

Rejected(isError, message) ==
    [outcome |-> "rejected", success |-> FALSE, result |-> NoResult, error |-> message,
     isError |-> isError]

\* failure envelopes with and without an error text, a success envelope without
\* a result, a rejection with an Error and one with another value
ApiFailures ==
    { Resolved(FALSE, NoResult, GitMissing), Resolved(FALSE, NoResult, NoText),
      Resolved(TRUE, NoResult, NoText) }

ApiRejections == { Rejected(TRUE, <<"Network", "error">>), Rejected(FALSE, NoText) }

InfoResults ==
    { [kind |-> "info", currentCommitShort |-> "a1f"],
      [kind |-> "info", currentCommitShort |-> "c3d"] }

CheckResults ==
    { [kind |-> "check", updateAvailable |-> TRUE, remoteVersion |-> "c3d2",
       remoteVersionShort |-> "c3d", error |-> NoText],
      [kind |-> "check", updateAvailable |-> FALSE, remoteVersion |-> "a1f0",
       remoteVersionShort |-> "a1f", error |-> NoText],
      [kind |-> "check", updateAvailable |-> FALSE, remoteVersion |-> NoCommit,
       remoteVersionShort |-> NoCommit,
       error |-> FetchFailedPrefix \o <<"fatal:", "unable", "to", "access">>] }

PullResults ==
    { [kind |-> "pull", newVersionShort |-> "c3d", alreadyUpToDate |-> FALSE],
      [kind |-> "pull", newVersionShort |-> "a1f", alreadyUpToDate |-> TRUE] }

ResultsOf(k) ==
    CASE k = "info" -> InfoResults
      [] k = "check" -> CheckResults
      [] k = "pull" -> PullResults

ApiResponses(k) ==
    {Resolved(TRUE, r, NoText) : r \in ResultsOf(k)} \cup ApiFailures \cup ApiRejections

DefaultMessage(k) ==
    CASE k = "info" -> <<"Failed", "to", "fetch", "update", "info">>
      [] k = "check" -> <<"Failed", "to", "check", "for", "updates">>
      [] k = "pull" -> <<"Failed", "to", "pull", "updates">>

\* response.error || default, and err instanceof Error ? err.message : default
ErrorText(k, r) ==
    IF r.outcome = "rejected"
    THEN IF r.isError THEN r.error ELSE DefaultMessage(k)
    ELSE IF r.error # NoText THEN r.error ELSE DefaultMessage(k)

\* !response.success || !response.result, or the request rejected
Unsuccessful(r) == r.outcome = "rejected" \/ ~r.success \/ r.result = NoResult

NoCall == [count |-> 0, action |-> "none", started |-> FALSE, returned |-> RetNull]

NoSettle ==
    [count |-> 0, kind |-> "none", response |-> Rejected(FALSE, NoText),
     returned |-> RetNull, emitterThrew |-> FALSE]

(* ------------------------- the extended PATH --------------------------- *)

\* an environment variable: unset, or set to a text (a directory, given as
\* its parts; the empty text when set to nothing); PATH is set to a list of
\* directories
Unset == [defined |-> FALSE, value |-> << >>]
SetTo(v) == [defined |-> TRUE, value |-> v]

\* filter(Boolean) keeps a value that is defined and not the empty string
Truthy(v) == v.defined /\ v.value # << >>

Platforms == {"win32", "linux"}

\* the directories Windows variables may name, a home directory, and the
\* inherited search paths: one with a known install directory in it
DirValues(d) == {Unset, SetTo(<< >>), SetTo(d)}

PathValues ==
    {Unset, SetTo(<< >>), SetTo(<< <<"/usr/bin">>, <<"/bin">> >>),
     SetTo(<< <<"/usr/bin">>, <<"/usr/local/bin">> >>),
     SetTo(<< <<"C:/Windows/system32">> >>)}

Environments ==
    [platform : Platforms,
     LOCALAPPDATA : DirValues(<<"C:/Users/u/AppData/Local">>),
     PROGRAMFILES : DirValues(<<"C:/Program Files">>),
     ProgramFilesX86 : DirValues(<<"C:/Program Files (x86)">>),
     HOME : DirValues(<<"/home/u">>),
     PATH : PathValues]

\* the process.env the other specifications run under
DefaultEnvironment ==
    [platform |-> "linux", LOCALAPPDATA |-> Unset, PROGRAMFILES |-> Unset,
     ProgramFilesX86 |-> Unset, HOME |-> SetTo(<<"/home/u">>),
     PATH |-> SetTo(<< <<"/usr/bin">>, <<"/bin">> >>)]

\* additionalPaths: the known install directories of the platform
additionalPaths(e) ==
    IF e.platform = "win32"
    THEN (IF Truthy(e.LOCALAPPDATA)
          THEN << e.LOCALAPPDATA.value \o <<"Programs", "Git", "cmd">> >> ELSE << >>)
         \o (IF Truthy(e.PROGRAMFILES)
             THEN << e.PROGRAMFILES.value \o <<"Git", "cmd">> >> ELSE << >>)
         \o (IF Truthy(e.ProgramFilesX86)
             THEN << e.ProgramFilesX86.value \o <<"Git", "cmd">> >> ELSE << >>)
    ELSE << <<"/opt/homebrew/bin">>, <<"/usr/local/bin">>,
            <<"/home/linuxbrew/.linuxbrew/bin">> >>
         \o (IF Truthy(e.HOME)
             THEN << e.HOME.value \o <<".local", "bin">> >> ELSE << >>)

\* the entries of process.env.PATH, none when it is unset or empty
InheritedPath(e) == IF Truthy(e.PATH) THEN e.PATH.value ELSE << >>

ExtendedPathKnownFirst(e) == additionalPaths(e) \o InheritedPath(e)

\* [process.env.PATH, ...additionalPaths.filter(Boolean)].filter(Boolean).join(sep):
\* the search path as the list of its directories, in order
ExtendedPath(e) == InheritedPath(e) \o additionalPaths(e)

NotComputed == << <<"not computed">> >>

(* ----------------------- the installation root ------------------------- *)

\* directories are named by their depth below the filesystem root (0)
MaxDepth == 7

\* at most this many directories hold a package.json
MaxManifests == 2

Dirs == 0..MaxDepth

\* path.dirname: the parent, the root being its own
Dirname(d) == IF d = 0 THEN 0 ELSE d - 1

\* path.resolve(dir, '..', '..', '..', '..', '..')
FallbackDir(d) == Dirname(Dirname(Dirname(Dirname(Dirname(d)))))

\* what a directory's package.json is: missing; present but not parsing (or
\* not readable, or not an object); parsing with another name; parsing with
\* the name "automaker"
ManifestKinds == {"missing", "unparsable", "other", "automaker"}

\* the package.json files of the directories from the module's up to the root
ManifestsAbove(m) ==
    { f \in [Dirs -> ManifestKinds] :
        /\ \A d \in Dirs : d > m => f[d] = "missing"
        /\ Cardinality({d \in Dirs : f[d] # "missing"}) <= MaxManifests }

NoDir == 0 - 1

\* the layout the other specifications run under: the module five levels
\* below the repository root, whose package.json names the application
DefaultModuleDir == 7
DefaultManifests ==
    [d \in Dirs |-> IF d = 2 THEN "automaker" ELSE IF d = 4 THEN "other" ELSE "missing"]

(* ----------------------- the polling hook: state ----------------------- *)

\* the calls of the check and pull functions one hook instance may make,
\* and the runs of its polling effect
MaxHookCalls == 3
MaxEffectRuns == 4

\* the two hooks that poll: useUpdatePolling, which calls the store's
\* checkForUpdates (or the onCheck it is given), and useAutoUpdate, which
\* has its own check and pull functions and shows the toasts
Hooks == {"useUpdatePolling", "useAutoUpdate"}

\* autoUpdate.checkIntervalMinutes
Intervals == {15, 30}

\* a ref holding null
NoId == 0

\* the values a render's checkForUpdates closes over
Closure(checking, pulling, given) ==
    [isChecking |-> checking, isPulling |-> pulling, onCheck |-> given]

\* the hook before it is mounted; the refs and the state as useRef and
\* useState initialise them
NoHook ==
    [which |-> "none", mounted |-> FALSE, unmounted |-> FALSE,
     enabled |-> FALSE, intervalMinutes |-> 15,
     isChecking |-> FALSE, isPulling |-> FALSE,
     updateAvailable |-> FALSE, remoteCommit |-> NoCommit,
     shownToastForCommitRef |-> NoCommit, toastIdRef |-> NoId, intervalRef |-> NoId,
     checkFn |-> Closure(FALSE, FALSE, "own"),
     hasCleanup |-> FALSE, effectRuns |-> 0, effectCause |-> "none",
     calls |-> 0, shown |-> 0]

\* the revisions a check may report to the hook
HookCommits == {"c3d2", "d4c3"}

\* what api.updates.check() comes to: a rejection, a failure envelope, a
\* result carrying an error, a result with an update (one without the short
\* revision among them), a result without an update
HookCheckResponses ==
    { [outcome |-> "rejected", success |-> FALSE, error |-> FALSE,
       updateAvailable |-> FALSE, remoteCommit |-> NoCommit,
       remoteCommitShort |-> NoCommit],
      [outcome |-> "resolved", success |-> FALSE, error |-> FALSE,
       updateAvailable |-> FALSE, remoteCommit |-> NoCommit,
       remoteCommitShort |-> NoCommit],
      [outcome |-> "resolved", success |-> TRUE, error |-> TRUE,
       updateAvailable |-> FALSE, remoteCommit |-> NoCommit,
       remoteCommitShort |-> NoCommit],
      [outcome |-> "resolved", success |-> TRUE, error |-> FALSE,
       updateAvailable |-> FALSE, remoteCommit |-> "a1f0",
       remoteCommitShort |-> "a1f"],
      [outcome |-> "resolved", success |-> TRUE, error |-> FALSE,
       updateAvailable |-> TRUE, remoteCommit |-> "c3d2",
       remoteCommitShort |-> NoCommit] }
    \cup { [outcome |-> "resolved", success |-> TRUE, error |-> FALSE,
            updateAvailable |-> TRUE, remoteCommit |-> c,
            remoteCommitShort |-> Short(c)] : c \in HookCommits }

\* what api.updates.pull() comes to: a rejection, a failure envelope, a
\* success without a result, already up to date, an installed update
HookPullResponses ==
    { [outcome |-> "rejected", success |-> FALSE, result |-> FALSE,
       alreadyUpToDate |-> FALSE],
      [outcome |-> "resolved", success |-> FALSE, result |-> FALSE,
       alreadyUpToDate |-> FALSE],
      [outcome |-> "resolved", success |-> TRUE, result |-> FALSE,
       alreadyUpToDate |-> FALSE],
      [outcome |-> "resolved", success |-> TRUE, result |-> TRUE,
       alreadyUpToDate |-> TRUE],
      [outcome |-> "resolved", success |-> TRUE, result |-> TRUE,
       alreadyUpToDate |-> FALSE] }

\* the pull installed an update
Installed(r) == r.outcome = "resolved" /\ r.success /\ r.result /\ ~r.alreadyUpToDate

(* ------------------------------ idle parts ----------------------------- *)

\* the store and the helpers have not been called
StoreIdle ==
    /\ helper = NoHelperCall
    /\ store = InitialState
    /\ requests = NoRequests
    /\ emitted = << >>
    /\ called = NoCall
    /\ settled = NoSettle

\* common.ts is loaded in the default environment
PathLoaded ==
    /\ env = DefaultEnvironment
    /\ extendedPath = ExtendedPath(DefaultEnvironment)

\* getAutomakerRoot has not been called
RootIdle ==
    /\ currentDir = NoDir
    /\ automakerRoot = NoDir

DefaultLayout ==
    /\ moduleDir = DefaultModuleDir
    /\ manifests = DefaultManifests

\* no hook is mounted
HookIdle ==
    /\ hook = NoHook
    /\ timers = {}
    /\ toasts = << >>
    /\ pending = {}

\* nothing outside the update routes has happened
Untouched ==
    /\ StoreIdle
    /\ PathLoaded
    /\ RootIdle
    /\ DefaultLayout
    /\ HookIdle

(* ------------------------------ the state ------------------------------ *)

InitLoc ==
    [sourceUrl |-> NoText, validated |-> FALSE,
     gitAvailable |-> FALSE, isRepo |-> FALSE, localChanges |-> FALSE,
     currentCommit |-> NoCommit, currentCommitShort |-> NoCommit,
     currentBranch |-> NoCommit,
     localVersion |-> NoCommit, localVersionShort |-> NoCommit,
     remoteVersion |-> NoCommit, remoteVersionShort |-> NoCommit,
     updateAvailable |-> FALSE,
     previousVersion |-> NoCommit, previousVersionShort |-> NoCommit,
     mergeOutput |-> NoText,
     newVersion |-> NoCommit, newVersionShort |-> NoCommit,
     err |-> NoText,
     headAtStart |-> NoCommit, fetched |-> FALSE]

NoPrior == [op |-> "none", success |-> FALSE, result |-> NoResult]

\* what is kept of the response to the previous request: the envelope's
\* success flag and its result, of an error text only that there was one
Remembered(o, r) ==
    [op |-> o, success |-> r.success,
     result |-> IF r.result.kind = "check" /\ r.result.error # NoText
                THEN [r.result EXCEPT !.error = <<"error">>]
                ELSE r.result]

Init ==
    /\ gitInstalled \in BOOLEAN
    /\ insideWorkTree \in BOOLEAN
    /\ dirty \in BOOLEAN
    /\ head \in Commits \cup {NoCommit}
    /\ upstream \in Commits
    /\ settings \in SettingsSnapshots
    \* what no command can observe is fixed: without git nothing is a work
    \* tree, outside a work tree there is no HEAD and no change
    /\ ~gitInstalled => ~insideWorkTree
    /\ ~insideWorkTree => (head = NoCommit /\ ~dirty)
    /\ remotes = [n \in RemoteNames |-> AbsentRemote]
    /\ op = [p \in Procs |-> "none"]
    /\ pc = [p \in Procs |-> "idle"]
    /\ loc = [p \in Procs |-> InitLoc]
    /\ resp = [p \in Procs |-> NoResponse]
    /\ cmds = [p \in Procs |-> {}]
    /\ calls = 0
    /\ prior = [p \in Procs |-> NoPrior]
    /\ urlArg = NoText
    /\ verdict = "unchecked"
    /\ Untouched

(* ------------------------------- steps --------------------------------- *)

Active(p) == pc[p] \notin {"idle", "done"}

\* the process executor spawns command c
Exec(p, c) == cmds' = [cmds EXCEPT ![p] = @ \cup {c}]

\* res.json / res.status(..).json
Respond(p, r) ==
    /\ resp' = [resp EXCEPT ![p] = r]
    /\ pc' = [pc EXCEPT ![p] = "done"]

\* the awaited step succeeded: go on with the locals nl
Advance(p, nl) ==
    LET n == NextLabel(op[p], pc[p], nl)
    IN  /\ loc' = [loc EXCEPT ![p] = nl]
        /\ IF n = "respond"
           THEN Respond(p, Success(op[p], nl, settings))
           ELSE /\ pc' = [pc EXCEPT ![p] = n]
                /\ UNCHANGED resp

ThrowEscapes(p, msg) ==
    IF pc[p] \in InTry(op[p])
    THEN /\ loc' = [loc EXCEPT ![p].err = msg]
         /\ pc' = [pc EXCEPT ![p] = "cleanupOnError"]
         /\ UNCHANGED resp
    ELSE /\ loc' = loc
         /\ pc' = [pc EXCEPT ![p] = "done"]
         /\ UNCHANGED resp

\* the awaited step rejected with message msg: the inner catch (after the
\* cleanup) if the step is inside the inner try, the outermost catch otherwise
Throw(p, msg) ==
    IF pc[p] \in InTry(op[p])
    THEN /\ loc' = [loc EXCEPT ![p].err = msg]
         /\ pc' = [pc EXCEPT ![p] = "cleanupOnError"]
         /\ UNCHANGED resp
    ELSE /\ loc' = loc
         /\ Respond(p, Failure(500, msg))

\* an early return with a failure envelope
Reject(p, status, msg) ==
    /\ loc' = loc
    /\ Respond(p, Failure(status, msg))

\* a request arrives
Start(p, o) ==
    /\ ~Active(p)
    /\ calls < MaxCalls
    /\ calls' = calls + 1
    /\ op' = [op EXCEPT ![p] = o]
    /\ pc' = [pc EXCEPT ![p] = Flow(o)[1]]
    /\ loc' = [loc EXCEPT ![p] = [InitLoc EXCEPT !.headAtStart = head]]
    /\ resp' = [resp EXCEPT ![p] = NoResponse]
    /\ cmds' = [cmds EXCEPT ![p] = {}]
    /\ prior' = [prior EXCEPT ![p] = Remembered(op[p], resp[p])]
    /\ UNCHANGED <<repoVars, head, remotes>>

\* isGitAvailable(): `git --version`
IsGitAvailable(p) ==
    /\ pc[p] = "isGitAvailable"
    /\ Exec(p, "version")
    /\ IF gitInstalled
       THEN Advance(p, [loc[p] EXCEPT !.gitAvailable = TRUE])
       ELSE IF op[p] = "info"
            THEN loc' = loc /\ Respond(p, InfoResult(loc[p], settings))
            ELSE Reject(p, 500, GitMissing)
    /\ UNCHANGED <<repoVars, head, remotes, op, calls, prior>>

IsGitRepoInfoFails(p) ==
    /\ pc[p] = "isGitRepo"
    /\ Exec(p, "is-inside-work-tree")
    /\ IF gitInstalled /\ insideWorkTree
       THEN Advance(p, [loc[p] EXCEPT !.isRepo = TRUE])
       ELSE Reject(p, 500, NotARepository)
    /\ UNCHANGED <<repoVars, head, remotes, op, calls, prior>>

\* isGitRepo(installPath): `git rev-parse --is-inside-work-tree`
IsGitRepo(p) ==
    /\ pc[p] = "isGitRepo"
    /\ Exec(p, "is-inside-work-tree")
    /\ IF gitInstalled /\ insideWorkTree
       THEN Advance(p, [loc[p] EXCEPT !.isRepo = TRUE])
       ELSE IF op[p] = "info"
            THEN loc' = loc /\ Respond(p, InfoResult(loc[p], settings))
            ELSE Reject(p, 500, NotARepository)
    /\ UNCHANGED <<repoVars, head, remotes, op, calls, prior>>

HasLocalChangesSkipped(p) ==
    /\ pc[p] = "hasLocalChanges"
    /\ Exec(p, "status")
    /\ Advance(p, [loc[p] EXCEPT !.localChanges = dirty])
    /\ UNCHANGED <<repoVars, head, remotes, op, calls, prior>>

\* hasLocalChanges(installPath): `git status --porcelain`; the pull handlers
\* return when it is true
HasLocalChanges(p) ==
    /\ pc[p] = "hasLocalChanges"
    /\ Exec(p, "status")
    /\ IF ~(gitInstalled /\ insideWorkTree)
       THEN Throw(p, CommandFailed(<<"status">>, <<"fatal:", "not", "a", "git", "repository">>))
       ELSE IF dirty /\ op[p] \in PullOps
            THEN Reject(p, 400, LocalChangesPresent)
            ELSE Advance(p, [loc[p] EXCEPT !.localChanges = dirty])
    /\ UNCHANGED <<repoVars, head, remotes, op, calls, prior>>

GetSettingsUnvalidated(p) ==
    /\ pc[p] = "getSettings"
    /\ \E readable \in BOOLEAN :
         IF ~readable
         THEN Throw(p, SettingsError)
         ELSE Advance(p, [loc[p] EXCEPT !.sourceUrl = SourceUrl(settings)])
    /\ UNCHANGED <<repoVars, head, remotes, op, cmds, calls, prior>>

\* settingsService.getGlobalSettings(), the source URL, and in the current check
\* and pull handlers the validation of it
GetSettings(p) ==
    /\ pc[p] = "getSettings"
    /\ \E readable \in BOOLEAN :
         LET sourceUrl == SourceUrl(settings)
         IN  IF ~readable
             THEN Throw(p, SettingsError)
             ELSE IF op[p] \in Validating /\ ~isValidGitUrl(sourceUrl)
                  THEN Reject(p, 400, InvalidUrl)
                  ELSE Advance(p, [loc[p] EXCEPT
                                     !.sourceUrl = sourceUrl,
                                     !.validated = (op[p] \in Validating)])
    /\ UNCHANGED <<repoVars, head, remotes, op, cmds, calls, prior>>

\* getCurrentCommit(installPath): `git rev-parse HEAD`
GetCurrentCommit(p) ==
    /\ pc[p] \in {"localVersion", "previousVersion", "newVersion", "currentCommit"}
    /\ Exec(p, "rev-parse-head")
    /\ LET r == GitRevParseHead(head)
       IN  IF r.ok
           THEN Advance(p, [loc[p] EXCEPT ![pc[p]] = r.stdout])
           ELSE Throw(p, r.message)
    /\ UNCHANGED <<repoVars, head, remotes, op, calls, prior>>

\* getShortCommit(installPath): `git rev-parse --short HEAD`
GetShortCommit(p) ==
    /\ pc[p] \in {"localVersionShort", "previousVersionShort", "newVersionShort",
                  "currentCommitShort"}
    /\ Exec(p, "rev-parse-short-head")
    /\ LET r == GitRevParseHead(head)
       IN  IF r.ok
           THEN Advance(p, [loc[p] EXCEPT ![pc[p]] = Short(r.stdout)])
           ELSE Throw(p, r.message)
    /\ UNCHANGED <<repoVars, head, remotes, op, calls, prior>>

CurrentBranchFetching(p) ==
    /\ pc[p] = "currentBranch"
    /\ Exec(p, "fetch")
    /\ remotes' = GitRemoteAdd(remotes, TempRemoteName(op[p]), DefaultUrl).remotes
    /\ Advance(p, [loc[p] EXCEPT !.currentBranch = "main"])
    /\ UNCHANGED <<repoVars, head, op, calls, prior>>

\* `git rev-parse --abbrev-ref HEAD`
CurrentBranch(p) ==
    /\ pc[p] = "currentBranch"
    /\ Exec(p, "rev-parse-abbrev-ref")
    /\ LET r == GitRevParseHead(head)
       IN  IF r.ok
           THEN Advance(p, [loc[p] EXCEPT !.currentBranch = "main"])
           ELSE Throw(p, r.message)
    /\ UNCHANGED <<repoVars, head, remotes, op, calls, prior>>

\* remove the temporary remote if it exists, ignoring the error
RemoveExisting(p) ==
    /\ pc[p] = "removeExisting"
    /\ Exec(p, "remote-remove")
    /\ remotes' = GitRemoteRemove(remotes, TempRemoteName(op[p])).remotes
    /\ Advance(p, loc[p])
    /\ UNCHANGED <<repoVars, head, op, calls, prior>>

\* `git remote add <name> "<sourceUrl>"`
RemoteAdd(p) ==
    /\ pc[p] = "remoteAdd"
    /\ Exec(p, "remote-add")
    /\ LET r == GitRemoteAdd(remotes, TempRemoteName(op[p]), loc[p].sourceUrl)
       IN  /\ remotes' = r.remotes
           /\ IF r.ok THEN Advance(p, loc[p]) ELSE Throw(p, r.message)
    /\ UNCHANGED <<repoVars, head, op, calls, prior>>

FetchRetried(p) ==
    /\ pc[p] = "fetch"
    /\ Exec(p, "fetch")
    /\ \E reachable \in BOOLEAN, stderr \in FetchErrors :
         LET r == GitFetch(remotes, TempRemoteName(op[p]), upstream, reachable, stderr)
         IN  /\ remotes' = r.remotes
             /\ IF r.ok
                THEN Advance(p, [loc[p] EXCEPT !.fetched = TRUE])
                ELSE UNCHANGED <<pc, loc, resp>>
    /\ UNCHANGED <<repoVars, head, op, calls, prior>>

FetchAndMerge(p) ==
    /\ pc[p] = "fetch"
    /\ Exec(p, "fetch")
    /\ \E reachable \in BOOLEAN, stderr \in FetchErrors :
         LET r == GitFetch(remotes, TempRemoteName(op[p]), upstream, reachable, stderr)
         IN  /\ remotes' = r.remotes
             /\ head' = IF r.ok THEN GitMerge(head, upstream).head ELSE head
             /\ IF r.ok
                THEN Advance(p, [loc[p] EXCEPT !.fetched = TRUE])
                ELSE Throw(p, r.message)
    /\ UNCHANGED <<repoVars, op, calls, prior>>

\* `git fetch <name> main`
Fetch(p) ==
    /\ pc[p] = "fetch"
    /\ Exec(p, "fetch")
    /\ \E reachable \in BOOLEAN, stderr \in FetchErrors :
         LET r == GitFetch(remotes, TempRemoteName(op[p]), upstream, reachable, stderr)
         IN  /\ remotes' = r.remotes
             /\ IF r.ok
                THEN Advance(p, [loc[p] EXCEPT !.fetched = TRUE])
                ELSE Throw(p, r.message)
    /\ UNCHANGED <<repoVars, head, op, calls, prior>>

\* `git rev-parse <name>/main`
RemoteVersion(p) ==
    /\ pc[p] = "remoteVersion"
    /\ Exec(p, "rev-parse-remote")
    /\ LET r == GitRevParseRemote(remotes, TempRemoteName(op[p]))
       IN  IF r.ok
           THEN Advance(p, [loc[p] EXCEPT !.remoteVersion = r.stdout])
           ELSE Throw(p, r.message)
    /\ UNCHANGED <<repoVars, head, remotes, op, calls, prior>>

\* `git rev-parse --short <name>/main`
RemoteVersionShort(p) ==
    /\ pc[p] = "remoteVersionShort"
    /\ Exec(p, "rev-parse-short-remote")
    /\ LET r == GitRevParseRemote(remotes, TempRemoteName(op[p]))
       IN  IF r.ok
           THEN Advance(p, [loc[p] EXCEPT !.remoteVersionShort = Short(r.stdout)])
           ELSE Throw(p, r.message)
    /\ UNCHANGED <<repoVars, head, remotes, op, calls, prior>>

MergeBaseReversed(p) ==
    /\ pc[p] = "mergeBase"
    /\ Exec(p, "merge-base")
    /\ Advance(p, [loc[p] EXCEPT !.updateAvailable =
                      IsAncestor(loc[p].remoteVersion, loc[p].localVersion)])
    /\ UNCHANGED <<repoVars, head, remotes, op, calls, prior>>

MergeBaseAlways(p) ==
    /\ pc[p] = "mergeBase"
    /\ Exec(p, "merge-base")
    /\ Advance(p, [loc[p] EXCEPT !.updateAvailable = TRUE])
    /\ UNCHANGED <<repoVars, head, remotes, op, calls, prior>>

\* `git merge-base --is-ancestor <localVersion> <remoteVersion>`: exit status 0
\* sets updateAvailable, any failure leaves it false
MergeBase(p) ==
    /\ pc[p] = "mergeBase"
    /\ Exec(p, "merge-base")
    /\ Advance(p, [loc[p] EXCEPT !.updateAvailable =
                      IsAncestor(loc[p].localVersion, loc[p].remoteVersion)])
    /\ UNCHANGED <<repoVars, head, remotes, op, calls, prior>>

MergeSkipped(p) ==
    /\ pc[p] = "merge"
    /\ Advance(p, loc[p])
    /\ UNCHANGED <<repoVars, head, remotes, op, cmds, calls, prior>>

\* `git merge <name>/main --ff-only`
Merge(p) ==
    /\ pc[p] = "merge"
    /\ Exec(p, "merge")
    /\ LET r == GitMerge(head, remotes[TempRemoteName(op[p])].ref)
       IN  /\ head' = r.head
           /\ IF r.ok
              THEN Advance(p, [loc[p] EXCEPT !.mergeOutput = r.stdout])
              ELSE Throw(p, r.message)
    /\ UNCHANGED <<repoVars, remotes, op, calls, prior>>

CleanupSkipped(p) ==
    /\ pc[p] = "cleanup"
    /\ Advance(p, loc[p])
    /\ UNCHANGED <<repoVars, head, remotes, op, cmds, calls, prior>>

\* the remove that ends the scope on the normal path: withTempGitRemote ignores
\* its failure, the earlier handlers let it throw into their catch
Cleanup(p) ==
    /\ pc[p] = "cleanup"
    /\ Exec(p, "remote-remove")
    /\ LET r == GitRemoteRemove(remotes, TempRemoteName(op[p]))
       IN  /\ remotes' = r.remotes
           /\ IF r.ok \/ op[p] \in UsesWithTempGitRemote
              THEN Advance(p, loc[p])
              ELSE Throw(p, r.message)
    /\ UNCHANGED <<repoVars, head, op, calls, prior>>

CleanupOnErrorSkipped(p) ==
    /\ pc[p] = "cleanupOnError"
    /\ loc' = loc
    /\ Respond(p, Caught(op[p], loc[p]))
    /\ UNCHANGED <<repoVars, head, remotes, op, cmds, calls, prior>>

\* the remove on the error path (its failure ignored), then the response of
\* the inner catch
CleanupOnError(p) ==
    /\ pc[p] = "cleanupOnError"
    /\ Exec(p, "remote-remove")
    /\ remotes' = GitRemoteRemove(remotes, TempRemoteName(op[p])).remotes
    /\ loc' = loc
    /\ Respond(p, Caught(op[p], loc[p]))
    /\ UNCHANGED <<repoVars, head, op, calls, prior>>

(* --------------------------- specifications ---------------------------- *)

Step(p) ==
    \/ \E o \in Ops : Start(p, o)
    \/ IsGitAvailable(p)
    \/ IsGitRepo(p)
    \/ HasLocalChanges(p)
    \/ GetSettings(p)
    \/ GetCurrentCommit(p)
    \/ GetShortCommit(p)
    \/ CurrentBranch(p)
    \/ RemoveExisting(p)
    \/ RemoteAdd(p)
    \/ Fetch(p)
    \/ RemoteVersion(p)
    \/ RemoteVersionShort(p)
    \/ MergeBase(p)
    \/ Merge(p)
    \/ Cleanup(p)
    \/ CleanupOnError(p)

\* requests may overlap: the steps of the invocations interleave
Next == \E p \in Procs : Step(p)

Spec == Init /\ [][Next]_vars

\* one request at a time: every request is served in the same slot, the next
\* one arriving after the response to the one before
NextSeq == \E p \in SeqProcs : Step(p)

SpecSeq == Init /\ [][NextSeq]_vars

\* every awaited git command and settings read eventually settles: a handler
\* that has started keeps taking its steps
SpecSeqFair == SpecSeq /\ \A p \in SeqProcs : WF_vars(Active(p) /\ Step(p))

\* isValidGitUrl on its own: one call on each string of UrlInputs
InitUrl ==
    /\ gitInstalled = TRUE
    /\ insideWorkTree = TRUE
    /\ dirty = FALSE
    /\ head = "a1f0"
    /\ upstream = "a1f0"
    /\ settings = NoAutoUpdate
    /\ remotes = [n \in RemoteNames |-> AbsentRemote]
    /\ op = [p \in Procs |-> "none"]
    /\ pc = [p \in Procs |-> "idle"]
    /\ loc = [p \in Procs |-> InitLoc]
    /\ resp = [p \in Procs |-> NoResponse]
    /\ cmds = [p \in Procs |-> {}]
    /\ calls = 0
    /\ prior = [p \in Procs |-> NoPrior]
    /\ urlArg \in UrlInputs
    /\ verdict = "unchecked"
    /\ Untouched

ValidateUrl ==
    /\ verdict = "unchecked"
    /\ verdict' = IF isValidGitUrl(urlArg) THEN "accepted" ELSE "rejected"
    /\ UNCHANGED <<gitInstalled, insideWorkTree, dirty, head, upstream, settings,
                   remotes, op, pc, loc, resp, cmds, calls, prior, urlArg,
                   helper, storeVars, processVars, hookVars>>

NextUrl == ValidateUrl

SpecUrl == InitUrl /\ [][NextUrl]_vars

\* the race on the reserved remote name: overlapping requests to the current
\* check and pull handlers, whose awaited commands all settle
RaceOps == {"check", "pull"}

StepRace(p) ==
    \/ \E o \in RaceOps : Start(p, o)
    \/ IsGitAvailable(p)
    \/ IsGitRepo(p)
    \/ HasLocalChanges(p)
    \/ GetSettings(p)
    \/ GetCurrentCommit(p)
    \/ GetShortCommit(p)
    \/ RemoveExisting(p)
    \/ RemoteAdd(p)
    \/ Fetch(p)
    \/ RemoteVersion(p)
    \/ RemoteVersionShort(p)
    \/ MergeBase(p)
    \/ Merge(p)
    \/ Cleanup(p)
    \/ CleanupOnError(p)

NextRace == \E p \in Procs : StepRace(p)

SpecRace ==
    Init /\ [][NextRace]_vars /\ \A p \in Procs : WF_vars(Active(p) /\ StepRace(p))

\* the repository helpers on their own: one call of one helper in each
\* state of the installation
CallHelper(h) ==
    /\ helper.name = "none"
    /\ helper' = [name |-> h,
                  outcome |-> CASE h = "isGitAvailable" -> isGitAvailable(gitInstalled)
                                [] h = "isGitRepo" -> isGitRepo(gitInstalled, insideWorkTree)
                                [] h = "hasLocalChanges" ->
                                     hasLocalChanges(gitInstalled, insideWorkTree, dirty)]
    /\ UNCHANGED <<serverVars, storeVars, processVars, hookVars>>

NextHelpers == \E h \in HelperNames : CallHelper(h)

SpecHelpers == Init /\ [][NextHelpers]_vars

\* the UI updates store on its own: its actions are called in any order, the
\* API client's requests settle in any order with any response
InitStore ==
    /\ gitInstalled = TRUE
    /\ insideWorkTree = TRUE
    /\ dirty = FALSE
    /\ head = "a1f0"
    /\ upstream = "c3d2"
    /\ settings = NoAutoUpdate
    /\ remotes = [n \in RemoteNames |-> AbsentRemote]
    /\ op = [p \in Procs |-> "none"]
    /\ pc = [p \in Procs |-> "idle"]
    /\ loc = [p \in Procs |-> InitLoc]
    /\ resp = [p \in Procs |-> NoResponse]
    /\ cmds = [p \in Procs |-> {}]
    /\ calls = 0
    /\ prior = [p \in Procs |-> NoPrior]
    /\ urlArg = NoText
    /\ verdict = "unchecked"
    /\ Untouched

\* new Date() in the step being taken
Now == called.count + settled.count + 1

FetchInfoSkipped(st, rq) == [store |-> st, requests |-> rq, started |-> FALSE]

\* fetchInfo up to its await: nothing when a request for the info is outstanding
FetchInfoSync(st, rq) ==
    IF st.isLoadingInfo
    THEN [store |-> st, requests |-> rq, started |-> FALSE]
    ELSE [store |-> [st EXCEPT !.isLoadingInfo = TRUE, !.error = NoText],
          requests |-> [rq EXCEPT !.info = @ + 1],
          started |-> TRUE]

Call(action, started, returned) ==
    /\ called.count < MaxStoreCalls
    /\ called' = [count |-> called.count + 1, action |-> action, started |-> started,
                  returned |-> returned]

Settle(kind, r, returned, threw) ==
    settled' = [count |-> settled.count + 1, kind |-> kind, response |-> r,
                returned |-> returned, emitterThrew |-> threw]

FetchInfo ==
    LET f == FetchInfoSync(store, requests)
    IN  /\ Call("fetchInfo", f.started, RetNull)
        /\ store' = f.store
        /\ requests' = f.requests
        /\ UNCHANGED <<serverVars, processVars, hookVars, helper, emitted, settled>>

CheckForUpdates ==
    /\ IF store.isChecking \/ store.isPulling
       THEN /\ Call("checkForUpdates", FALSE, RetBool(FALSE))
            /\ UNCHANGED <<store, requests>>
       ELSE /\ Call("checkForUpdates", TRUE, RetNull)
            /\ store' = [store EXCEPT !.isChecking = TRUE, !.error = NoText]
            /\ requests' = [requests EXCEPT !.check = @ + 1]
    /\ UNCHANGED <<serverVars, processVars, hookVars, helper, emitted, settled>>

PullUpdates ==
    /\ IF store.isPulling \/ store.isChecking
       THEN /\ Call("pullUpdates", FALSE, RetNull)
            /\ UNCHANGED <<store, requests>>
       ELSE /\ Call("pullUpdates", TRUE, RetNull)
            /\ store' = [store EXCEPT !.isPulling = TRUE, !.error = NoText]
            /\ requests' = [requests EXCEPT !.pull = @ + 1]
    /\ UNCHANGED <<serverVars, processVars, hookVars, helper, emitted, settled>>

ClearError ==
    /\ Call("clearError", FALSE, RetNull)
    /\ store' = [store EXCEPT !.error = NoText]
    /\ UNCHANGED <<serverVars, processVars, hookVars, helper, requests, emitted, settled>>

Reset ==
    /\ Call("reset", FALSE, RetNull)
    /\ store' = InitialState
    /\ UNCHANGED <<serverVars, processVars, hookVars, helper, requests, emitted, settled>>

SettleInfoFlagKept ==
    /\ requests.info > 0
    /\ \E r \in ApiResponses("info") :
         /\ requests' = [requests EXCEPT !.info = @ - 1]
         /\ IF Unsuccessful(r)
            THEN /\ store' = [store EXCEPT !.error = ErrorText("info", r)]
                 /\ Settle("info", r, RetNull, FALSE)
            ELSE /\ store' = [store EXCEPT !.isLoadingInfo = FALSE, !.info = r.result]
                 /\ Settle("info", r, RetResult(r.result), FALSE)
    /\ UNCHANGED <<serverVars, processVars, hookVars, helper, emitted, called>>

\* the continuation of fetchInfo after await _apiClient.getInfo()
SettleInfo ==
    /\ requests.info > 0
    /\ \E r \in ApiResponses("info") :
         /\ requests' = [requests EXCEPT !.info = @ - 1]
         /\ IF Unsuccessful(r)
            THEN /\ store' = [store EXCEPT !.isLoadingInfo = FALSE,
                                           !.error = ErrorText("info", r)]
                 /\ Settle("info", r, RetNull, FALSE)
            ELSE /\ store' = [store EXCEPT !.isLoadingInfo = FALSE, !.info = r.result]
                 /\ Settle("info", r, RetResult(r.result), FALSE)
    /\ UNCHANGED <<serverVars, processVars, hookVars, helper, emitted, called>>

SettleCheckSoftErrorStored ==
    /\ requests.check > 0
    /\ \E r \in ApiResponses("check") :
         /\ requests' = [requests EXCEPT !.check = @ - 1]
         /\ IF Unsuccessful(r)
            THEN /\ store' = [store EXCEPT !.isChecking = FALSE,
                                           !.error = ErrorText("check", r),
                                           !.lastChecked = Now]
                 /\ Settle("check", r, RetBool(FALSE), FALSE)
            ELSE /\ store' = [store EXCEPT !.isChecking = FALSE,
                                           !.error = r.result.error,
                                           !.updateAvailable = r.result.updateAvailable,
                                           !.remoteVersion = r.result.remoteVersion,
                                           !.remoteVersionShort = r.result.remoteVersionShort,
                                           !.lastChecked = Now]
                 /\ Settle("check", r, RetBool(r.result.updateAvailable), FALSE)
    /\ UNCHANGED <<serverVars, processVars, hookVars, helper, emitted, called>>

\* the continuation of checkForUpdates after await _apiClient.checkForUpdates()
SettleCheck ==
    /\ requests.check > 0
    /\ \E r \in ApiResponses("check") :
         /\ requests' = [requests EXCEPT !.check = @ - 1]
         /\ IF Unsuccessful(r)
            THEN /\ store' = [store EXCEPT !.isChecking = FALSE,
                                           !.error = ErrorText("check", r),
                                           !.lastChecked = Now]
                 /\ Settle("check", r, RetBool(FALSE), FALSE)
            ELSE IF r.result.error # NoText
            THEN /\ store' = [store EXCEPT !.isChecking = FALSE,
                                           !.error = r.result.error,
                                           !.lastChecked = Now]
                 /\ Settle("check", r, RetBool(FALSE), FALSE)
            ELSE /\ store' = [store EXCEPT !.isChecking = FALSE,
                                           !.updateAvailable = r.result.updateAvailable,
                                           !.remoteVersion = r.result.remoteVersion,
                                           !.remoteVersionShort = r.result.remoteVersionShort,
                                           !.lastChecked = Now]
                 /\ Settle("check", r, RetBool(r.result.updateAvailable), FALSE)
    /\ UNCHANGED <<serverVars, processVars, hookVars, helper, emitted, called>>

EmitterFailed == <<"emitter", "failed">>

EmitUpdatePulledDropped(log, result) == log

\* _eventEmitter.emitUpdatePulled({ newVersion: result.newVersionShort,
\*                                  alreadyUpToDate: result.alreadyUpToDate })
EmitUpdatePulled(log, result) ==
    Append(log, [newVersion |-> result.newVersionShort,
                 alreadyUpToDate |-> result.alreadyUpToDate])

\* the continuation of pullUpdates after await _apiClient.pullUpdates(): on
\* success the state update, the info refresh and the notification, any of
\* which throwing lands in the catch
SettlePull ==
    /\ requests.pull > 0
    /\ \E r \in ApiResponses("pull"), emitterThrows \in BOOLEAN :
         LET rq == [requests EXCEPT !.pull = @ - 1]
         IN  IF Unsuccessful(r)
             THEN /\ ~emitterThrows
                  /\ requests' = rq
                  /\ store' = [store EXCEPT !.isPulling = FALSE,
                                            !.error = ErrorText("pull", r)]
                  /\ emitted' = emitted
                  /\ Settle("pull", r, RetNull, FALSE)
             ELSE LET st == [store EXCEPT !.isPulling = FALSE,
                                           !.updateAvailable = FALSE,
                                           !.remoteVersion = NoCommit,
                                           !.remoteVersionShort = NoCommit,
                                           !.lastPulled = Now]
                      f == FetchInfoSync(st, rq)
                  IN  /\ requests' = f.requests
                      /\ emitted' = EmitUpdatePulled(emitted, r.result)
                      /\ IF emitterThrows
                         THEN /\ store' = [f.store EXCEPT !.isPulling = FALSE,
                                                          !.error = EmitterFailed]
                              /\ Settle("pull", r, RetNull, TRUE)
                         ELSE /\ store' = f.store
                              /\ Settle("pull", r, RetResult(r.result), FALSE)
    /\ UNCHANGED <<serverVars, processVars, hookVars, helper, called>>

NextStore ==
    \/ FetchInfo
    \/ CheckForUpdates
    \/ PullUpdates
    \/ ClearError
    \/ Reset
    \/ SettleInfo
    \/ SettleCheck
    \/ SettlePull

SpecStore == InitStore /\ [][NextStore]_vars

\* the update routes at rest, in the installation the store specification uses
ServerIdle ==
    /\ gitInstalled = TRUE
    /\ insideWorkTree = TRUE
    /\ dirty = FALSE
    /\ head = "a1f0"
    /\ upstream = "c3d2"
    /\ settings = NoAutoUpdate
    /\ remotes = [n \in RemoteNames |-> AbsentRemote]
    /\ op = [p \in Procs |-> "none"]
    /\ pc = [p \in Procs |-> "idle"]
    /\ loc = [p \in Procs |-> InitLoc]
    /\ resp = [p \in Procs |-> NoResponse]
    /\ cmds = [p \in Procs |-> {}]
    /\ calls = 0
    /\ prior = [p \in Procs |-> NoPrior]
    /\ urlArg = NoText
    /\ verdict = "unchecked"

\* the load of common.ts on its own, in each environment
InitEnv ==
    /\ ServerIdle
    /\ StoreIdle
    /\ RootIdle
    /\ DefaultLayout
    /\ HookIdle
    /\ env \in Environments
    /\ extendedPath = NotComputed

\* the module's top-level statements run when it is first imported
LoadCommon ==
    /\ extendedPath = NotComputed
    /\ extendedPath' = ExtendedPath(env)
    /\ UNCHANGED <<serverVars, helper, storeVars, hookVars, env, manifests,
                   moduleDir, currentDir, automakerRoot>>

NextEnv == LoadCommon

SpecEnv == InitEnv /\ [][NextEnv]_vars

\* getAutomakerRoot on its own: one call for each place of the module and
\* each arrangement of package.json files above it
InitRoot ==
    /\ ServerIdle
    /\ StoreIdle
    /\ PathLoaded
    /\ HookIdle
    /\ RootIdle
    /\ moduleDir \in Dirs
    /\ manifests \in ManifestsAbove(moduleDir)

\* let currentDir = path.dirname(__filename)
GetAutomakerRoot ==
    /\ currentDir = NoDir
    /\ automakerRoot = NoDir
    /\ currentDir' = moduleDir
    /\ UNCHANGED <<serverVars, helper, storeVars, hookVars, env, extendedPath, manifests,
                   moduleDir, automakerRoot>>

\* one turn of while (currentDir !== root)
ExamineDir ==
    /\ currentDir \notin {NoDir, 0}
    /\ automakerRoot = NoDir
    /\ IF manifests[currentDir] = "automaker"
       THEN /\ automakerRoot' = currentDir
            /\ currentDir' = currentDir
       ELSE /\ currentDir' = Dirname(currentDir)
            /\ automakerRoot' = automakerRoot
    /\ UNCHANGED <<serverVars, helper, storeVars, hookVars, env, extendedPath, manifests,
                   moduleDir>>

\* the loop has ended at the root: the fixed path
Fallback ==
    /\ currentDir = 0
    /\ automakerRoot = NoDir
    /\ automakerRoot' = FallbackDir(moduleDir)
    /\ UNCHANGED <<serverVars, helper, storeVars, hookVars, env, extendedPath, manifests,
                   moduleDir, currentDir>>

NextRoot == GetAutomakerRoot \/ ExamineDir \/ Fallback

SpecRoot == InitRoot /\ [][NextRoot]_vars

(* -------------------------- the polling hook --------------------------- *)

\* clearInterval(id)
ClearInterval(tm, id) == {t \in tm : t.id # id}

\* the call of a check or pull function that reaches the API
Requested(h, kind, cause) ==
    [id |-> h.calls + 1, kind |-> kind, cause |-> cause, effectCause |-> h.effectCause]

\* a call of the check function fn, up to its await: useUpdatePolling hands
\* the call to onCheck; useAutoUpdate's checkForUpdates returns at once when
\* the isChecking or isPulling it closed over is set, and otherwise sets
\* isChecking and calls api.updates.check()
CallCheck(h, fn, pd, cause) ==
    IF h.which = "useAutoUpdate" /\ (fn.isChecking \/ fn.isPulling)
    THEN [hook |-> h, pending |-> pd]
    ELSE [hook |-> [h EXCEPT !.calls = @ + 1,
                             !.isChecking = IF h.which = "useAutoUpdate" /\ h.mounted
                                            THEN TRUE ELSE @],
          pending |-> pd \cup {Requested(h, "check", cause)}]

\* the checkForUpdates of the render being committed: useCallback gives a
\* new function when isChecking or isPulling has changed
Rendered(h) ==
    [h EXCEPT !.checkFn = IF h.which = "useAutoUpdate"
                          THEN Closure(h.isChecking, h.isPulling, "own")
                          ELSE h.checkFn]

\* the polling effect runs because one of its dependencies changed: first
\* the cleanup the previous run returned, then the effect: clear the
\* interval in intervalRef; when enabled, call the check function and set
\* the interval
RunEffect(h, tm, pd, cause) ==
    LET tm1 == IF h.intervalRef # NoId THEN ClearInterval(tm, h.intervalRef) ELSE tm
        h1 == [h EXCEPT !.intervalRef = NoId,
                        !.effectRuns = @ + 1, !.effectCause = cause]
    IN  IF ~h1.enabled
        THEN [hook |-> [h1 EXCEPT !.hasCleanup = FALSE], timers |-> tm1, pending |-> pd]
        ELSE LET c == CallCheck(h1, h1.checkFn, pd, "effect")
                 id == h1.effectRuns
             IN  [hook |-> [c.hook EXCEPT !.intervalRef = id, !.hasCleanup = TRUE],
                  timers |-> tm1 \cup {[id |-> id,
                                        ms |-> h1.intervalMinutes * 60 * 1000,
                                        fn |-> h1.checkFn]},
                  pending |-> c.pending]

\* the budget of the instance is not used up
WithinBudget == hook.calls < MaxHookCalls /\ hook.effectRuns < MaxEffectRuns

Commit(e) ==
    /\ hook' = e.hook
    /\ timers' = e.timers
    /\ pending' = e.pending

\* the component mounts: first render, the effect runs
HookMount ==
    /\ hook = NoHook
    /\ \E which \in Hooks, enabled \in BOOLEAN, minutes \in Intervals :
         Commit(RunEffect(
             [NoHook EXCEPT !.which = which, !.mounted = TRUE, !.enabled = enabled,
                            !.intervalMinutes = minutes,
                            !.checkFn = Closure(FALSE, FALSE,
                                                IF which = "useAutoUpdate" THEN "own"
                                                ELSE "store")],
             timers, pending, "mount"))
    /\ UNCHANGED <<serverVars, helper, storeVars, processVars, toasts>>

\* autoUpdate.enabled or autoUpdate.checkIntervalMinutes changes in the app
\* store: the component renders again and the effect runs
HookChangeSettings ==
    /\ hook.mounted
    /\ WithinBudget
    /\ \E enabled \in BOOLEAN, minutes \in Intervals :
         /\ <<enabled, minutes>> # <<hook.enabled, hook.intervalMinutes>>
         /\ Commit(RunEffect(
                Rendered([hook EXCEPT !.enabled = enabled, !.intervalMinutes = minutes]),
                timers, pending, "settings"))
    /\ UNCHANGED <<serverVars, helper, storeVars, processVars, toasts>>

\* useUpdatePolling is rendered with another options.onCheck
HookChangeOnCheck ==
    /\ hook.mounted
    /\ hook.which = "useUpdatePolling"
    /\ WithinBudget
    /\ Commit(RunEffect(
           [hook EXCEPT !.checkFn.onCheck = IF @ = "store" THEN "given" ELSE "store"],
           timers, pending, "settings"))
    /\ UNCHANGED <<serverVars, helper, storeVars, processVars, toasts>>

\* useAutoUpdate renders again after its own isChecking or isPulling has
\* changed: checkForUpdates is a new function, so the effect runs
HookRender ==
    /\ hook.mounted
    /\ Rendered(hook) # hook
    /\ WithinBudget
    /\ Commit(RunEffect(Rendered(hook), timers, pending, "state"))
    /\ UNCHANGED <<serverVars, helper, storeVars, processVars, toasts>>

\* an interval elapses: the function given to setInterval is called
IntervalFires ==
    /\ hook.calls < MaxHookCalls
    /\ \E t \in timers :
         LET c == CallCheck(hook, t.fn, pending, "timer")
         IN  /\ hook' = c.hook
             /\ pending' = c.pending
    /\ UNCHANGED <<serverVars, helper, storeVars, processVars, timers, toasts>>

\* the checkNow the hook returned is called
CheckNow ==
    /\ hook.mounted
    /\ hook.calls < MaxHookCalls
    /\ LET c == CallCheck(hook, hook.checkFn, pending, "manual")
       IN  /\ hook' = c.hook
           /\ pending' = c.pending
    /\ UNCHANGED <<serverVars, helper, storeVars, processVars, timers, toasts>>

\* toast.info('Update Available', ...) and toast.dismiss(id)
Shown(id, commit) == [op |-> "show", id |-> id, commit |-> commit]
Dismissed(id) == [op |-> "dismiss", id |-> id, commit |-> NoCommit]

ShowUpdateAvailableAlways(h, log, r) ==
    [hook |-> [h EXCEPT !.shownToastForCommitRef = r.remoteCommit,
                        !.toastIdRef = h.shown + 1, !.shown = @ + 1],
     toasts |-> (IF h.toastIdRef # NoId THEN Append(log, Dismissed(h.toastIdRef))
                 ELSE log) \o <<Shown(h.shown + 1, r.remoteCommit)>>]

\* the toast part of a check that found an update: nothing when the toast
\* for this revision has been shown; otherwise record the revision, dismiss
\* the toast in toastIdRef, show the new one and keep its id
ShowUpdateAvailable(h, log, r) ==
    IF h.shownToastForCommitRef = r.remoteCommit
    THEN [hook |-> h, toasts |-> log]
    ELSE [hook |-> [h EXCEPT !.shownToastForCommitRef = r.remoteCommit,
                             !.toastIdRef = h.shown + 1, !.shown = @ + 1],
          toasts |-> (IF h.toastIdRef # NoId THEN Append(log, Dismissed(h.toastIdRef))
                      ELSE log) \o <<Shown(h.shown + 1, r.remoteCommit)>>]

\* setState of a component that is still mounted
SetState(h, checking, pulling, available, commit) ==
    IF h.mounted
    THEN [h EXCEPT !.isChecking = checking, !.isPulling = pulling,
                   !.updateAvailable = available, !.remoteCommit = commit]
    ELSE h

\* api.updates.check() settles: the rest of useAutoUpdate's checkForUpdates
\* (useUpdatePolling leaves the outcome to the store)
CheckResolves ==
    /\ \E c \in pending :
         /\ c.kind = "check"
         /\ pending' = pending \ {c}
         /\ IF hook.which = "useUpdatePolling"
            THEN UNCHANGED <<hook, toasts>>
            ELSE \E r \in HookCheckResponses :
                   IF r.outcome = "rejected" \/ ~r.success \/ r.error
                   THEN /\ hook' = SetState(hook, FALSE, hook.isPulling,
                                            hook.updateAvailable, hook.remoteCommit)
                        /\ toasts' = toasts
                   ELSE IF r.updateAvailable /\ r.remoteCommitShort # NoCommit
                   THEN LET t == ShowUpdateAvailable(hook, toasts, r)
                        IN  /\ hook' = SetState(t.hook, FALSE, hook.isPulling, TRUE,
                                                r.remoteCommitShort)
                            /\ toasts' = t.toasts
                   ELSE /\ hook' = SetState(hook, FALSE, hook.isPulling, FALSE, NoCommit)
                        /\ toasts' = toasts
    /\ UNCHANGED <<serverVars, helper, storeVars, processVars, timers>>

\* pullUpdate is called, by the toast's Update Now or by the component
PullUpdate ==
    /\ hook.which = "useAutoUpdate"
    /\ hook.mounted \/ hook.toastIdRef # NoId
    /\ hook.calls < MaxHookCalls
    /\ hook' = [SetState(hook, hook.isChecking, TRUE, hook.updateAvailable,
                         hook.remoteCommit) EXCEPT !.calls = @ + 1]
    /\ pending' = pending \cup {Requested(hook, "pull", "manual")}
    /\ UNCHANGED <<serverVars, helper, storeVars, processVars, timers, toasts>>

\* api.updates.pull() settles: the rest of pullUpdate
PullResolves ==
    /\ \E c \in pending, r \in HookPullResponses :
         /\ c.kind = "pull"
         /\ pending' = pending \ {c}
         /\ IF Installed(r)
            THEN /\ hook' = [SetState(hook, hook.isChecking, FALSE, FALSE,
                                      hook.remoteCommit)
                               EXCEPT !.shownToastForCommitRef = NoCommit,
                                      !.toastIdRef = NoId]
                 /\ toasts' = IF hook.toastIdRef # NoId
                              THEN Append(toasts, Dismissed(hook.toastIdRef))
                              ELSE toasts
            ELSE /\ hook' = SetState(hook, hook.isChecking, FALSE, hook.updateAvailable,
                                     hook.remoteCommit)
                 /\ toasts' = toasts
    /\ UNCHANGED <<serverVars, helper, storeVars, processVars, timers>>

\* the component unmounts: the cleanup of the polling effect, then that of
\* the toast effect
HookUnmount ==
    /\ hook.mounted
    /\ timers' = IF hook.hasCleanup /\ hook.intervalRef # NoId
                 THEN ClearInterval(timers, hook.intervalRef) ELSE timers
    /\ hook' = [hook EXCEPT !.mounted = FALSE, !.unmounted = TRUE,
                            !.intervalRef = IF hook.hasCleanup THEN NoId ELSE @]
    /\ toasts' = IF hook.which = "useAutoUpdate" /\ hook.toastIdRef # NoId
                 THEN Append(toasts, Dismissed(hook.toastIdRef))
                 ELSE toasts
    /\ UNCHANGED <<serverVars, helper, storeVars, processVars, pending>>

InitHook ==
    /\ ServerIdle
    /\ StoreIdle
    /\ PathLoaded
    /\ RootIdle
    /\ DefaultLayout
    /\ HookIdle

NextHook ==
    \/ HookMount
    \/ HookChangeSettings
    \/ HookChangeOnCheck
    \/ HookRender
    \/ IntervalFires
    \/ CheckNow
    \/ CheckResolves
    \/ PullUpdate
    \/ PullResolves
    \/ HookUnmount

SpecHook == InitHook /\ [][NextHook]_vars

(* ------------------------------- claims -------------------------------- *)

Done(p) == pc[p] = "done"

\* the commands that touch the temporary remote or the upstream
RemoteTouching ==
    {"remote-remove", "remote-add", "fetch", "rev-parse-remote",
     "rev-parse-short-remote", "merge-base", "merge"}

\* C1: a check whose fetch succeeded, started with the local revision a strict
\* ancestor of the upstream tip, answers with a success envelope whose result
\* has updateAvailable = true and remoteVersion = the upstream tip.
C1_StrictAncestorReportsUpdate ==
    \A p \in Procs :
        (/\ op[p] \in CheckOps
         /\ Done(p)
         /\ loc[p].fetched
         /\ StrictAncestor(loc[p].headAtStart, upstream))
        => /\ resp[p].success
           /\ resp[p].status = 200
           /\ resp[p].result.updateAvailable
           /\ resp[p].result.remoteVersion = upstream
           /\ resp[p].result.localVersion = loc[p].headAtStart

C1_Witness ==
    \E p \in Procs :
        /\ op[p] = "check"
        /\ Done(p)
        /\ loc[p].fetched
        /\ loc[p].headAtStart = "a1f0"
        /\ upstream = "c3d2"
        /\ resp[p].success
        /\ resp[p].result.updateAvailable

\* C2: in every result of a check, updateAvailable is true only when the local
\* revision is a strict ancestor of the remote revision; with local equal to
\* remote, local ahead of remote, and diverged histories the result has
\* updateAvailable = false, and ahead and diverged results differ in nothing
\* but the revisions they carry (no error, the remote revision present).
C2_UpdateOnlyForStrictAncestor ==
    \A p \in Procs :
        (op[p] \in CheckOps /\ Done(p) /\ resp[p].success)
        => LET r == resp[p].result
           IN  /\ r.updateAvailable
                    => /\ StrictAncestor(r.localVersion, r.remoteVersion)
                       /\ r.localVersion = loc[p].headAtStart
                       /\ r.remoteVersion = upstream
               /\ (loc[p].fetched /\ ~StrictAncestor(loc[p].headAtStart, upstream))
                    => /\ ~r.updateAvailable
                       /\ r.error = NoText
                       /\ r.remoteVersion = upstream
                       /\ r.remoteVersionShort = Short(upstream)

C2_Witness ==
    \E p \in Procs :
        /\ op[p] = "check"
        /\ Done(p)
        /\ loc[p].fetched
        /\ Diverged(loc[p].headAtStart, upstream)
        /\ resp[p].success
        /\ ~resp[p].result.updateAvailable
        /\ "merge-base" \in cmds[p]

\* the invocation is inside its temporary-remote scope
ScopeOpen(p) == Active(p) /\ pc[p] \in InScope(op[p])

\* C3: every step by which an invocation leaves its temporary-remote scope,
\* on the normal path or after a failed add, fetch or body step, leaves the
\* reserved remote name absent from the remote list (requests may overlap).
C3_RemoteAbsentAfterScope ==
    [][\A p \in Procs :
          (ScopeOpen(p) /\ ~ScopeOpen(p)')
          => ~remotes'[TempRemoteName(op[p])].present]_vars

C3_Witness ==
    \E p \in Procs :
        /\ op[p] \in {"checkInline", "pullInline"}
        /\ Done(p)
        /\ "remote-add" \in cmds[p]
        /\ "fetch" \notin cmds[p]
        /\ Includes(loc[p].err, <<"remote", "already", "exists">>)
        /\ ~remotes[TempRemoteName(op[p])].present

\* C4: after a pull the checked-out revision is the one checked out before the
\* call or the upstream tip, the latter only if the former is an ancestor of
\* it; no other revision (a merge commit) is ever checked out.
C4_FastForwardOnly ==
    /\ head \in Commits \cup {NoCommit}
    /\ \A p \in Procs :
         (op[p] \in PullOps /\ Done(p))
         => \/ head = loc[p].headAtStart
            \/ /\ head = upstream
               /\ IsAncestor(loc[p].headAtStart, upstream)
               /\ resp[p].success

C4_Witness ==
    \E p \in Procs :
        /\ op[p] = "pull"
        /\ Done(p)
        /\ "merge" \in cmds[p]
        /\ Diverged(loc[p].headAtStart, upstream)
        /\ head = loc[p].headAtStart
        /\ ~resp[p].success

\* C5: a pull on a dirty working tree (git present, path a repository) never
\* spawns a remote add, fetch or merge, and its response is the
\* local-changes failure, whatever the configured URL is.
C5_DirtyPullTouchesNothing ==
    \A p \in Procs :
        (op[p] \in PullOps /\ gitInstalled /\ insideWorkTree /\ dirty)
        => /\ cmds[p] \cap {"remote-remove", "remote-add", "fetch", "merge"} = {}
           /\ Done(p) => /\ resp[p] = Failure(400, LocalChangesPresent)
                         /\ cmds[p] = {"version", "is-inside-work-tree", "status"}

C5_Witness ==
    \E p \in Procs :
        /\ op[p] = "pull"
        /\ Done(p)
        /\ dirty
        /\ ~isValidGitUrl(SourceUrl(settings))
        /\ resp[p].error = LocalChangesPresent

\* C6: in every check and pull, the remote add (the command line carrying the
\* URL) is spawned only after isValidGitUrl returned true for that URL in the
\* same invocation, and a URL that fails validation ends the invocation with
\* the invalid-URL failure.
C6_UrlValidatedBeforeUse ==
    \A p \in Procs :
        (op[p] \in CheckOps \cup PullOps)
        => /\ "remote-add" \in cmds[p]
                => loc[p].validated /\ isValidGitUrl(loc[p].sourceUrl)
           /\ (/\ Done(p)
               /\ gitInstalled /\ insideWorkTree
               /\ op[p] \in PullOps => ~dirty
               /\ resp[p].error # SettingsError
               /\ ~isValidGitUrl(SourceUrl(settings)))
                => resp[p] = Failure(400, InvalidUrl)

\* C7: the check handler tests its preconditions in order (git present, path a
\* repository, URL valid); the first one that fails gives its own failure
\* envelope and no command touching a remote has been spawned.
C7_CheckPreconditionsInOrder ==
    \A p \in Procs :
        (op[p] = "check" /\ Done(p) /\ resp[p].error # SettingsError)
        => /\ ~gitInstalled
                => /\ resp[p] = Failure(500, GitMissing)
                   /\ cmds[p] = {"version"}
           /\ (gitInstalled /\ ~insideWorkTree)
                => /\ resp[p] = Failure(500, NotARepository)
                   /\ cmds[p] = {"version", "is-inside-work-tree"}
           /\ (gitInstalled /\ insideWorkTree /\ ~isValidGitUrl(SourceUrl(settings)))
                => /\ resp[p] = Failure(400, InvalidUrl)
                   /\ cmds[p] = {"version", "is-inside-work-tree"}
           /\ (~resp[p].success /\ resp[p].error \in {GitMissing, NotARepository, InvalidUrl})
                => cmds[p] \cap RemoteTouching = {}

C7_Witness ==
    \E p \in Procs :
        /\ op[p] = "check"
        /\ Done(p)
        /\ gitInstalled /\ insideWorkTree
        /\ ~isValidGitUrl(SourceUrl(settings))
        /\ resp[p] = Failure(400, InvalidUrl)

\* C8: a check whose fetch fails answers with a success envelope: the result
\* has updateAvailable = false, remoteVersion and remoteVersionShort null, and
\* an error made of the fetch failure message.
C8_FetchFailureIsSoft ==
    \A p \in Procs :
        (op[p] \in CheckOps /\ Done(p) /\ "fetch" \in cmds[p] /\ ~loc[p].fetched)
        => /\ resp[p].success
           /\ resp[p].status = 200
           /\ resp[p].error = NoText
           /\ ~resp[p].result.updateAvailable
           /\ resp[p].result.remoteVersion = NoCommit
           /\ resp[p].result.remoteVersionShort = NoCommit
           /\ resp[p].result.localVersion = loc[p].headAtStart
           /\ \E e \in FetchErrors :
                resp[p].result.error
                    = FetchFailedPrefix \o CommandFailed(<<"fetch">>, e)

C8_Witness ==
    \E p \in Procs :
        /\ op[p] = "check"
        /\ Done(p)
        /\ "fetch" \in cmds[p]
        /\ ~loc[p].fetched
        /\ resp[p].success
        /\ Includes(resp[p].result.error, <<"unable", "to", "access">>)

C10_CheckThenPull ==
    \A p \in Procs :
        (/\ op[p] = "pull"
         /\ Done(p)
         /\ prior[p].op = "check"
         /\ prior[p].success
         /\ prior[p].result.error = NoText
         /\ StrictAncestor(loc[p].headAtStart, upstream)
         /\ ~dirty
         /\ isValidGitUrl(SourceUrl(settings))
         /\ loc[p].fetched)
        => /\ prior[p].result.updateAvailable
           /\ prior[p].result.localVersion = loc[p].headAtStart
           /\ prior[p].result.remoteVersion = upstream
           /\ resp[p].success
           /\ resp[p].result.success
           /\ resp[p].result.previousVersion = loc[p].headAtStart
           /\ resp[p].result.previousVersionShort = Short(loc[p].headAtStart)
           /\ resp[p].result.newVersion = upstream
           /\ resp[p].result.newVersionShort = Short(upstream)
           /\ ~resp[p].result.alreadyUpToDate
           /\ head = upstream

C10_Witness ==
    \E p \in Procs :
        /\ op[p] = "pull"
        /\ Done(p)
        /\ prior[p].op = "check"
        /\ prior[p].success
        /\ prior[p].result.updateAvailable
        /\ loc[p].headAtStart = "a1f0"
        /\ upstream = "c3d2"
        /\ resp[p].success
        /\ resp[p].result.newVersion = "c3d2"
        /\ head = "c3d2"

\* C11: a pull that follows a successful pull with the upstream tip unchanged,
\* and whose fetch succeeds, returns a success result with alreadyUpToDate =
\* true and previousVersion = newVersion = the revision the first pull left
\* checked out, and leaves that revision checked out.
C11_SecondPullUpToDate ==
    \A p \in Procs :
        (/\ op[p] \in PullOps
         /\ Done(p)
         /\ prior[p].op \in PullOps
         /\ prior[p].success
         /\ loc[p].fetched)
        => /\ resp[p].success
           /\ resp[p].result.success
           /\ resp[p].result.alreadyUpToDate
           /\ resp[p].result.message = AlreadyUpToDate
           /\ resp[p].result.previousVersion = resp[p].result.newVersion
           /\ resp[p].result.previousVersionShort = resp[p].result.newVersionShort
           /\ resp[p].result.newVersion = prior[p].result.newVersion
           /\ head = prior[p].result.newVersion
           /\ head = loc[p].headAtStart

C11_Witness ==
    \E p \in Procs :
        /\ op[p] = "pull"
        /\ Done(p)
        /\ prior[p].op = "pull"
        /\ prior[p].success
        /\ ~prior[p].result.alreadyUpToDate
        /\ prior[p].result.newVersion = "c3d2"
        /\ resp[p].success
        /\ resp[p].result.alreadyUpToDate
        /\ head = "c3d2"

\* C12: in the result of every successful pull, whatever other requests it
\* overlapped with, alreadyUpToDate is true exactly when previousVersion equals
\* newVersion.
C12_AlreadyUpToDateIffSameRevision ==
    \A p \in Procs :
        (op[p] \in PullOps /\ Done(p) /\ resp[p].success)
        => (resp[p].result.alreadyUpToDate
              <=> resp[p].result.previousVersion = resp[p].result.newVersion)

\* C13: an info request whose settings read succeeded, with git missing or the
\* install path not a repository, answers with a success envelope: the
\* revision, short revision and branch are null, hasLocalChanges is false, and
\* upstreamUrl, autoUpdateEnabled and checkIntervalMinutes are those of the
\* settings snapshot, or the defaults when it has no autoUpdate section.
C13_InfoNeverFailsOnAbsence ==
    \A p \in Procs :
        (/\ op[p] = "info"
         /\ Done(p)
         /\ resp[p].error # SettingsError
         /\ ~(gitInstalled /\ insideWorkTree))
        => /\ resp[p].success
           /\ resp[p].status = 200
           /\ resp[p].result.kind = "info"
           /\ resp[p].result.gitAvailable = gitInstalled
           /\ ~resp[p].result.isGitRepo
           /\ resp[p].result.currentCommit = NoCommit
           /\ resp[p].result.currentCommitShort = NoCommit
           /\ resp[p].result.currentBranch = NoCommit
           /\ ~resp[p].result.hasLocalChanges
           /\ IF settings.present
              THEN /\ resp[p].result.upstreamUrl = settings.upstreamUrl
                   /\ resp[p].result.autoUpdateEnabled = settings.enabled
                   /\ resp[p].result.checkIntervalMinutes = settings.checkIntervalMinutes
              ELSE /\ resp[p].result.upstreamUrl = DefaultUrl
                   /\ resp[p].result.autoUpdateEnabled
                   /\ resp[p].result.checkIntervalMinutes = 15

C13_Witness ==
    \E p \in Procs :
        /\ op[p] = "info"
        /\ Done(p)
        /\ gitInstalled
        /\ ~insideWorkTree
        /\ settings = AutoUpdate(SshUrl)
        /\ cmds[p] = {"version", "is-inside-work-tree"}
        /\ resp[p].success
        /\ resp[p].result.gitAvailable
        /\ resp[p].result.upstreamUrl = SshUrl

\* the standard envelopes: success with a result, or failure with a status,
\* an error text and no result
Envelope(r) ==
    /\ r.sent
    /\ \/ r.success /\ r.status = 200 /\ r.error = NoText /\ r.result # NoResult
       \/ ~r.success /\ r.status \in {400, 500} /\ r.error # NoText
            /\ r.result = NoResult

RevParseHeadFailed == GitRevParseHead(NoCommit).message

\* C14: every started info, check and pull invocation ends, and ends with
\* exactly one response, a standard envelope, sent by its last step; a step
\* that fails outside the inner try (the settings read, git rev-parse HEAD on a
\* repository without commits) gives the failure envelope with status 500 and
\* the message of the failure.
C14_OneEnvelopePerInvocation ==
    /\ [](\A p \in Procs : /\ Done(p) => Envelope(resp[p])
                           /\ Active(p) => ~resp[p].sent)
    /\ [][\A p \in Procs :
             resp[p].sent => (resp'[p] = resp[p] \/ (~resp'[p].sent /\ Active(p)'))]_vars
    /\ \A p \in Procs : Active(p) ~> Done(p)
    /\ [](\A p \in Procs :
             (Done(p) /\ gitInstalled /\ insideWorkTree /\ head = NoCommit
                /\ resp[p].error # SettingsError)
             => /\ op[p] = "info" => resp[p] = Failure(500, RevParseHeadFailed)
                /\ (op[p] \in {"check", "checkInline"}
                      /\ resp[p].error # InvalidUrl)
                     => resp[p] = Failure(500, RevParseHeadFailed)
                /\ (op[p] = "pullInline" /\ ~dirty)
                     => resp[p] = Failure(500, RevParseHeadFailed)
                /\ (op[p] = "pull" /\ ~dirty /\ resp[p].error # InvalidUrl)
                     => resp[p] = Failure(500, PullFailedPrefix \o RevParseHeadFailed))

C14_Witness ==
    \E p \in Procs :
        /\ op[p] = "check"
        /\ Done(p)
        /\ head = NoCommit
        /\ cmds[p] = {"version", "is-inside-work-tree", "rev-parse-head"}
        /\ resp[p] = Failure(500, RevParseHeadFailed)

\* the accepted prefixes and the rejected characters, as the contract lists them
AcceptedPrefixes ==
    { <<"h","t","t","p","s",":","/","/">>, <<"g","i","t","@">>,
      <<"g","i","t",":","/","/">>, <<"s","s","h",":","/","/">> }

RejectedChars ==
    {";", "backtick", "|", "&", "<", ">", "(", ")", "$", "!", "backslash", "[", "]", " "}

\* C15: isValidGitUrl(url) is true exactly when url begins with https://, git@,
\* git:// or ssh:// and contains none of ; ` | & < > ( ) $ ! \ [ ] and the
\* space; a string with one of these characters is rejected whatever its
\* prefix, and the four example URLs are accepted.
C15_ValidExactlyWhenPrefixAndNoShellChar ==
    verdict # "unchecked"
    => LET beginsAccepted ==
               \E pre \in AcceptedPrefixes :
                   Len(urlArg) >= Len(pre) /\ \A i \in 1..Len(pre) : urlArg[i] = pre[i]
           containsRejected == \E i \in 1..Len(urlArg) : urlArg[i] \in RejectedChars
       IN  /\ verdict = "accepted" <=> (beginsAccepted /\ ~containsRejected)
           /\ containsRejected => verdict = "rejected"
           /\ urlArg \in { <<"h","t","t","p","s",":","/","/","h","o","s","t","/","p","a","t","h",".","g","i","t">>,
                        <<"g","i","t","@","h","o","s","t",":","p","a","t","h",".","g","i","t">>,
                        <<"s","s","h",":","/","/","h","o","s","t","/","p","a","t","h">>,
                        <<"g","i","t",":","/","/","h","o","s","t","/","p","a","t","h">> }
                => verdict = "accepted"

C15_Witness ==
    /\ verdict = "rejected"
    /\ urlArg = <<"h","t","t","p","s",":","/","/","e","v","i","l",".","c","o","m","/","x",";"," ","r","m"," ","-","r","f"," ","/">>

\* C16 as stated: with a configured URL that fails validation (git present,
\* path a repository, settings readable), a check returns the invalid-URL
\* failure without having spawned any command.
C16_InvalidUrlSpawnsNothing ==
    \A p \in Procs :
        (/\ op[p] = "check"
         /\ Done(p)
         /\ gitInstalled /\ insideWorkTree
         /\ resp[p].error # SettingsError
         /\ ~isValidGitUrl(SourceUrl(settings)))
        => /\ resp[p] = Failure(400, InvalidUrl)
           /\ cmds[p] = {}

\* C16: with a configured URL that fails validation, a check never spawns a
\* command other than the two probes `git --version` and `git rev-parse
\* --is-inside-work-tree` (none carrying the URL, none touching a remote), and
\* with git present, the path a repository and the settings readable it
\* returns the invalid-URL failure after exactly these two.
C16_InvalidUrlSpawnsOnlyProbes ==
    \A p \in Procs :
        (op[p] = "check" /\ ~isValidGitUrl(SourceUrl(settings)))
        => /\ cmds[p] \subseteq {"version", "is-inside-work-tree"}
           /\ (/\ Done(p)
               /\ gitInstalled /\ insideWorkTree
               /\ resp[p].error # SettingsError)
                => /\ resp[p] = Failure(400, InvalidUrl)
                   /\ cmds[p] = {"version", "is-inside-work-tree"}

C16_Witness ==
    \E p \in Procs :
        /\ op[p] = "check"
        /\ Done(p)
        /\ settings = AutoUpdate(EvilUrl)
        /\ resp[p] = Failure(400, InvalidUrl)
        /\ cmds[p] = {"version", "is-inside-work-tree"}

\* C17: in the result of every check, remoteVersion and remoteVersionShort are
\* null together, and only when the fetch of that check was attempted and
\* failed (the result then carries the error); when the fetch succeeded the
\* result carries the upstream tip, its short form, and no error.
C17_RemoteVersionNullOnlyOnFetchFailure ==
    \A p \in Procs :
        (op[p] \in CheckOps /\ Done(p) /\ resp[p].success)
        => LET r == resp[p].result
           IN  /\ r.remoteVersion = NoCommit <=> r.remoteVersionShort = NoCommit
               /\ r.remoteVersion = NoCommit
                    => /\ "fetch" \in cmds[p]
                       /\ ~loc[p].fetched
                       /\ Includes(r.error, <<"fetch">>)
               /\ loc[p].fetched
                    => /\ r.remoteVersion = upstream
                       /\ r.remoteVersion # NoCommit
                       /\ r.remoteVersionShort = Short(upstream)
                       /\ r.error = NoText

PreconditionFailures ==
    {Failure(500, GitMissing), Failure(500, NotARepository), Failure(400, InvalidUrl)}

\* C18 as stated: a check returns a failure envelope only for a precondition
\* violation (git missing, path not a repository, invalid URL).
C18_FailureOnlyForPreconditions ==
    \A p \in Procs :
        (op[p] = "check" /\ Done(p) /\ ~resp[p].success)
        => resp[p] \in PreconditionFailures

\* C18: a check returns a failure envelope for a precondition violation, or,
\* with status 500 and the message of the error, when the settings read or
\* the reading of the local revision fails (before any remote is touched);
\* once its fetch has been attempted, it returns a success envelope, also
\* when the fetch failed.
C18_FailureForPreconditionsOrInternalError ==
    \A p \in Procs :
        (op[p] = "check" /\ Done(p))
        => /\ ~resp[p].success
                => \/ resp[p] \in PreconditionFailures
                   \/ /\ resp[p] \in {Failure(500, SettingsError),
                                       Failure(500, RevParseHeadFailed)}
                      /\ cmds[p] \cap RemoteTouching = {}
           /\ resp[p] = Failure(500, RevParseHeadFailed)
                => (gitInstalled /\ insideWorkTree /\ head = NoCommit)
           /\ "fetch" \in cmds[p] => resp[p].success
           /\ (/\ gitInstalled /\ insideWorkTree /\ head # NoCommit
               /\ isValidGitUrl(SourceUrl(settings))
               /\ resp[p].error # SettingsError)
                => resp[p].success

C18_Witness ==
    \E p \in Procs :
        /\ op[p] = "check"
        /\ Done(p)
        /\ settings = NoAutoUpdate
        /\ gitInstalled /\ insideWorkTree
        /\ head = NoCommit
        /\ "rev-parse-head" \in cmds[p]
        /\ ~resp[p].success
        /\ resp[p].status = 500
        /\ resp[p] \notin PreconditionFailures

\* every step of the body of the temporary-remote scope has succeeded
BodySucceeded(p) ==
    IF op[p] \in CheckOps
    THEN loc[p].fetched /\ loc[p].remoteVersionShort # NoCommit
    ELSE loc[p].fetched /\ loc[p].mergeOutput # NoText

CleanupMessage == <<"remote", "remove">>

\* C19: a failure of the remove that ends the temporary-remote scope never
\* reaches the caller: a check or pull whose body succeeded answers with a
\* success envelope without error, and when a body step has thrown, the
\* response is the one the inner catch builds from that step's error, never
\* from the error of the remove (requests may overlap).
C19_CleanupFailureSwallowed ==
    \A p \in Procs :
        (op[p] \in CheckOps \cup PullOps /\ Done(p))
        => /\ BodySucceeded(p)
                => /\ resp[p].success
                   /\ op[p] \in CheckOps => resp[p].result.error = NoText
           /\ loc[p].err # NoText
                => /\ ~Includes(loc[p].err, CleanupMessage)
                   /\ resp[p] = Caught(op[p], loc[p])

\* C20: whatever the interleaving of the steps of overlapping check and pull
\* invocations that share a remote name, every invocation ends with a
\* response envelope; whenever no invocation is running, no temporary remote
\* is left in the remote list; and the checked-out revision only ever moves
\* by a fast-forward to the upstream tip, so that it is the original revision
\* or the upstream tip.
C20_RaceLeavesRepositoryIntact ==
    /\ <>[](\A p \in Procs : ~Active(p))
    /\ [](\A p \in Procs : Done(p) => Envelope(resp[p]))
    /\ []((\A p \in Procs : ~Active(p))
            => \A n \in RemoteNames : ~remotes[n].present)
    /\ [][head' # head => (head' = upstream /\ IsAncestor(head, upstream))]_vars
    /\ [](\A p \in Procs :
             (op[p] \in CheckOps \cup PullOps /\ Done(p))
             => \/ head = loc[p].headAtStart
                \/ head = upstream /\ IsAncestor(loc[p].headAtStart, upstream))

C20_Witness ==
    /\ \A p \in Procs : Done(p) /\ op[p] \in {"check", "pull"}
    /\ \E p \in Procs : Includes(loc[p].err, <<"remote", "already", "exists">>)
    /\ \E p \in Procs : op[p] = "pull" /\ resp[p].success /\ head # loc[p].headAtStart
    /\ head = upstream
    /\ \A n \in RemoteNames : ~remotes[n].present

\* C21: called with git missing or with a path that is not a repository, each
\* of isGitAvailable, isGitRepo and hasLocalChanges returns false; none of
\* them raises the process error.
C21_HelpersNeverRaise ==
    (helper.name # "none" /\ ~(gitInstalled /\ insideWorkTree))
    => /\ ~helper.outcome.raised
       /\ helper.name \in {"isGitRepo", "hasLocalChanges"} => ~helper.outcome.value
       /\ (helper.name = "isGitAvailable" /\ ~gitInstalled) => ~helper.outcome.value

\* the API response is a success envelope with a result
SuccessWithResult(r) == r.outcome = "resolved" /\ r.success /\ r.result # NoResult

\* the step settles a request of kind k
Settles(k) == settled'.count = settled.count + 1 /\ settled'.kind = k

\* C22: the store calls emitUpdatePulled exactly once in the step that
\* settles a pull request with a success envelope carrying a result, with
\* newVersion the result's newVersionShort and its alreadyUpToDate flag; in no
\* other step (a skipped pull, a failure envelope, a rejected request, any
\* other action) is a notification emitted.
C22_EmitsOncePerSuccessfulPull ==
    [][IF Settles("pull") /\ SuccessWithResult(settled'.response)
       THEN emitted' = Append(emitted,
                         [newVersion |-> settled'.response.result.newVersionShort,
                          alreadyUpToDate |-> settled'.response.result.alreadyUpToDate])
       ELSE emitted' = emitted]_vars

C22_Witness ==
    /\ settled.kind = "pull"
    /\ SuccessWithResult(settled.response)
    /\ settled.response.result.newVersionShort = "c3d"
    /\ emitted = <<[newVersion |-> "c3d", alreadyUpToDate |-> FALSE]>>
    /\ called.action = "pullUpdates"
    /\ ~called.started

\* C23: an info request spawns none of remote add, remote remove, fetch and
\* merge (nor any other command touching a remote), and no step taken while
\* it runs changes the checked-out revision or the remote list, whichever
\* way it ends (requests do not overlap).
C23_InfoIsReadOnly ==
    /\ [](\A p \in Procs :
             op[p] = "info"
             => /\ cmds[p] \cap RemoteTouching = {}
                /\ cmds[p] \subseteq {"version", "is-inside-work-tree", "rev-parse-head",
                                       "rev-parse-short-head", "rev-parse-abbrev-ref",
                                       "status"}
                /\ Done(p) => head = loc[p].headAtStart)
    /\ [][\A p \in Procs :
             (op'[p] = "info" /\ Active(p)')
             => (head' = head /\ remotes' = remotes)]_vars
    /\ [][\A p \in Procs :
             (op[p] = "info" /\ Active(p))
             => (head' = head /\ remotes' = remotes)]_vars

C23_Witness ==
    \E p \in Procs :
        /\ op[p] = "info"
        /\ Done(p)
        /\ resp[p].success
        /\ resp[p].result.isGitRepo
        /\ resp[p].result.currentCommit = "b2e1"
        /\ "status" \in cmds[p]
        /\ prior[p].op = "pull"

\* the merge of invocation p has fast-forwarded the checked-out revision
AdvancedHead(p) == Includes(loc[p].mergeOutput, <<"Updating">>)

\* C24: a pull that answers with a failure envelope has not moved the
\* checked-out revision: its own merge has not fast-forwarded it (requests
\* may overlap; a revision moved by another request is not counted).
C24_FailedPullLeavesHead ==
    \A p \in Procs :
        (op[p] \in PullOps /\ Done(p) /\ ~resp[p].success)
        => ~AdvancedHead(p)

\* C25: a check never changes the checked-out revision: it spawns no merge,
\* no step taken while it runs moves the revision, and when it has answered
\* (with a result, a soft fetch failure, a precondition failure or an internal
\* error) the revision is the one checked out when it started (requests do
\* not overlap).
C25_CheckLeavesHead ==
    /\ [](\A p \in Procs :
             op[p] \in CheckOps
             => /\ "merge" \notin cmds[p]
                /\ Done(p) => head = loc[p].headAtStart)
    /\ [][\A p \in Procs :
             (op[p] \in CheckOps /\ Active(p)) => head' = head]_vars

C25_Witness ==
    \E p \in Procs :
        /\ op[p] = "check"
        /\ Done(p)
        /\ loc[p].fetched
        /\ resp[p].success
        /\ ~resp[p].result.updateAvailable
        /\ resp[p].result.remoteVersion = "d4c3"
        /\ head = "b2e1"
        /\ loc[p].headAtStart = "b2e1"

\* a pull that follows a check which reported no update and no error, against
\* the same repository and upstream state, its own fetch succeeding
AfterCheckWithoutUpdate(p) ==
    /\ op[p] \in PullOps
    /\ Done(p)
    /\ prior[p].op \in CheckOps
    /\ prior[p].success
    /\ ~prior[p].result.updateAvailable
    /\ prior[p].result.error = NoText
    /\ prior[p].result.localVersion = loc[p].headAtStart
    /\ prior[p].result.remoteVersion = upstream
    /\ ~dirty
    /\ loc[p].fetched

\* C26: check and pull agree: a pull that follows a check which reported
\* updateAvailable = false and no error leaves the checked-out revision as it
\* was; it answers alreadyUpToDate = true when the local revision is the
\* upstream tip or ahead of it, and with the diverged-branches failure (400)
\* when the histories have diverged.
C26_CheckAndPullAgree ==
    \A p \in Procs :
        AfterCheckWithoutUpdate(p)
        => /\ head = loc[p].headAtStart
           /\ IsAncestor(upstream, loc[p].headAtStart)
                => /\ resp[p].success
                   /\ resp[p].result.alreadyUpToDate
           /\ Diverged(loc[p].headAtStart, upstream)
                => resp[p] = Failure(400, DivergedBranches)

\* C27: whatever actions are called on a store, it never has a check request
\* and a pull request outstanding together, nor two check requests, nor two
\* pull requests.
C27_NoOverlappingRequests ==
    requests.check + requests.pull <= 1

\* C28: the loading flags are never left stuck: a flag is set only while a
\* request of its kind is outstanding, so with no request outstanding all
\* three are false; and the step in which a request settles (with a result,
\* a failure envelope, a result carrying an error, or a rejection) leaves the
\* flag of its kind false.
C28_FlagsNeverStuck ==
    /\ [](/\ store.isLoadingInfo => requests.info > 0
          /\ store.isChecking => requests.check > 0
          /\ store.isPulling => requests.pull > 0
          /\ requests = NoRequests
               => (~store.isLoadingInfo /\ ~store.isChecking /\ ~store.isPulling))
    /\ [][/\ Settles("info") => ~store'.isLoadingInfo
          /\ Settles("check") => ~store'.isChecking
          /\ Settles("pull") => ~store'.isPulling]_vars

C28_Witness ==
    /\ settled.kind = "info"
    /\ settled.response.outcome = "rejected"
    /\ settled.count = 2
    /\ called.action = "fetchInfo"
    /\ requests = NoRequests
    /\ ~store.isLoadingInfo
    /\ ~store.isChecking
    /\ ~store.isPulling
    /\ store.error # NoText

\* the fields of the store that hold the outcome of the last check
RemoteFields(st) == <<st.updateAvailable, st.remoteVersion, st.remoteVersionShort>>

\* the response r to a check is a failure envelope, a rejection, or a result
\* carrying an error
CheckFailed(r) == Unsuccessful(r) \/ r.result.error # NoText

\* C29: a store check that ends in a failure envelope, a result carrying an
\* error, or a rejection sets error and lastChecked, returns false, and leaves
\* updateAvailable, remoteVersion and remoteVersionShort as they were: neither
\* the step that starts a check nor the step in which it ends so writes them.
C29_FailedCheckKeepsRemoteFields ==
    /\ [][(Settles("check") /\ CheckFailed(settled'.response))
            => /\ RemoteFields(store') = RemoteFields(store)
               /\ store'.error # NoText
               /\ store'.error = IF Unsuccessful(settled'.response)
                                 THEN ErrorText("check", settled'.response)
                                 ELSE settled'.response.result.error
               /\ store'.lastChecked = Now
               /\ store'.lastChecked # store.lastChecked
               /\ settled'.returned = RetBool(FALSE)]_vars
    /\ [][(called'.count = called.count + 1 /\ called'.action = "checkForUpdates")
            => RemoteFields(store') = RemoteFields(store)]_vars

C29_Witness ==
    /\ settled.kind = "check"
    /\ settled.count = 2
    /\ ~Unsuccessful(settled.response)
    /\ settled.response.result.error # NoText
    /\ settled.returned = RetBool(FALSE)
    /\ store.updateAvailable
    /\ store.remoteVersion = "c3d2"
    /\ store.remoteVersionShort = "c3d"
    /\ store.error = settled.response.result.error
    /\ ~store.isChecking

\* C30: the step in which a store pull ends: when the API response is a
\* success carrying a result, the store then has updateAvailable = false,
\* remoteVersion and remoteVersionShort null and lastPulled set, and fetchInfo
\* has been called (a request for the info is outstanding and isLoadingInfo
\* is set: a new request, unless one was already marked outstanding); when
\* the API response is a failure envelope or the request is rejected, the
\* three fields are as they were and error is set.
C30_PullOutcomeInStore ==
    [][Settles("pull")
        => LET r == settled'.response
           IN  /\ SuccessWithResult(r)
                    => /\ RemoteFields(store') = <<FALSE, NoCommit, NoCommit>>
                       /\ store'.lastPulled = Now
                       /\ ~store'.isPulling
                       /\ store'.isLoadingInfo
                       /\ requests'.info > 0
                       /\ requests'.info =
                            IF store.isLoadingInfo THEN requests.info
                            ELSE requests.info + 1
               /\ Unsuccessful(r)
                    => /\ RemoteFields(store') = RemoteFields(store)
                       /\ store'.error = ErrorText("pull", r)
                       /\ store'.error # NoText
                       /\ store'.lastPulled = store.lastPulled
                       /\ requests'.info = requests.info]_vars

C30_Witness ==
    /\ settled.kind = "pull"
    /\ settled.count = 2
    /\ SuccessWithResult(settled.response)
    /\ ~settled.emitterThrew
    /\ store.lastChecked # 0
    /\ store.lastPulled > store.lastChecked
    /\ RemoteFields(store) = <<FALSE, NoCommit, NoCommit>>
    /\ store.isLoadingInfo
    /\ requests = [info |-> 1, check |-> 0, pull |-> 0]
    /\ store.error = NoText

\* C32: for every settings snapshot the upstream URL an info request reports
\* is the URL a check or a pull validates and adds as the temporary remote
\* (settings.autoUpdate?.upstreamUrl, or the default URL); with autoUpdate
\* absent the info reports the default URL, enabled = true and
\* checkIntervalMinutes = 15.
C32_InfoReportsTheUrlInUse ==
    \A p \in Procs :
        /\ (op[p] = "info" /\ Done(p) /\ resp[p].success)
             => /\ resp[p].result.upstreamUrl = SourceUrl(settings)
                /\ ~settings.present
                     => /\ resp[p].result.upstreamUrl = DefaultUrl
                        /\ resp[p].result.autoUpdateEnabled
                        /\ resp[p].result.checkIntervalMinutes = 15
        /\ (op[p] \in CheckOps \cup PullOps /\ "remote-add" \in cmds[p])
             => /\ loc[p].sourceUrl = SourceUrl(settings)
                /\ remotes[TempRemoteName(op[p])].present
                     => remotes[TempRemoteName(op[p])].url = SourceUrl(settings)

\* how far invocation p of handler o has come when it is at label l: its
\* place in the flow, then the cleanup of the error path, then the response
Position(o, l) ==
    CASE l = "done" -> Len(Flow(o)) + 2
      [] l = "cleanupOnError" -> Len(Flow(o)) + 1
      [] OTHER -> Index(o, l)

\* C35: every started info, check and pull invocation eventually sends its
\* response, given that each command it awaits settles: every step it takes
\* moves it forward in its flow (no step is retried, none is gone back to),
\* and a failed step inside the inner try leads to the cleanup and from
\* there to the response.
C35_EveryInvocationResponds ==
    /\ \A p \in Procs : Active(p) ~> (Done(p) /\ resp[p].sent)
    /\ \A p \in Procs : (pc[p] = "cleanupOnError") ~> (Done(p) /\ resp[p].sent)
    /\ [][\A p \in Procs :
             Active(p)
             => /\ op'[p] = op[p]
                /\ Position(op[p], pc'[p]) > Position(op[p], pc[p])
                /\ pc[p] = "cleanupOnError" => Done(p)']_vars

C35_Witness ==
    \E p \in Procs :
        /\ op[p] = "pull"
        /\ Done(p)
        /\ resp[p].sent
        /\ ~resp[p].success
        /\ resp[p].status = 500
        /\ {"fetch", "remote-remove"} \subseteq cmds[p]
        /\ "merge" \notin cmds[p]
        /\ ~loc[p].fetched
        /\ Includes(loc[p].err, <<"unable", "to", "access">>)

\* C33 (as stated): the search path every command is spawned with is computed
\* once, when the module is loaded, as the known install directories of the
\* platform followed by the inherited path, unset and empty values left out:
\* every known install directory comes before every inherited entry, so a
\* tool in a known install directory is found first.
C33_KnownDirsAheadOfInherited ==
    extendedPath # NotComputed
    => /\ extendedPath = additionalPaths(env) \o InheritedPath(env)
       /\ \A i, j \in 1..Len(extendedPath) :
            (/\ \E k \in 1..Len(additionalPaths(env)) :
                   additionalPaths(env)[k] = extendedPath[i]
             /\ \E k \in 1..Len(InheritedPath(env)) :
                   InheritedPath(env)[k] = extendedPath[j]
             /\ extendedPath[i] # extendedPath[j])
            => i < j

\* C33: the search path is computed once, when the module is loaded, as the
\* inherited path (left out when unset or empty) followed by the known
\* install directories of the platform (those built on an unset or empty
\* variable left out): the inherited entries come first, in their order, so
\* a tool on the inherited path is found before one in a known install
\* directory; once computed the path does not change.
C33_InheritedAheadOfKnownDirs ==
    /\ [](extendedPath # NotComputed
            => /\ extendedPath = InheritedPath(env) \o additionalPaths(env)
               /\ \A i \in 1..Len(extendedPath) : extendedPath[i] # << >>
               /\ \A i \in 1..Len(InheritedPath(env)) :
                    extendedPath[i] = InheritedPath(env)[i]
               /\ env.platform = "win32"
                    => Len(extendedPath) = Len(InheritedPath(env))
                         + Cardinality({v \in {"LOCALAPPDATA", "PROGRAMFILES",
                                               "ProgramFilesX86"} : Truthy(env[v])})
               /\ env.platform # "win32"
                    => Len(extendedPath) = Len(InheritedPath(env)) + 3
                         + (IF Truthy(env.HOME) THEN 1 ELSE 0))
    /\ [][extendedPath # NotComputed => extendedPath' = extendedPath]_vars

C33_Witness ==
    /\ env.platform = "win32"
    /\ env.LOCALAPPDATA = SetTo(<< >>)
    /\ ~env.PROGRAMFILES.defined
    /\ env.PATH = SetTo(<< <<"C:/Windows/system32">> >>)
    /\ extendedPath = << <<"C:/Windows/system32">>,
                         <<"C:/Program Files (x86)", "Git", "cmd">> >>

\* C34: getAutomakerRoot returns the nearest directory, from the module's
\* directory upward, whose package.json parses and names the application,
\* and, when there is none, the directory five levels above the module's.
C34_NearestManifestOrFallback ==
    automakerRoot # NoDir
    => LET named == {d \in 0..moduleDir : manifests[d] = "automaker"}
       IN  IF named # {}
           THEN automakerRoot = CHOOSE d \in named : \A e \in named : e <= d
           ELSE automakerRoot = FallbackDir(moduleDir)

\* the check requests this step has started from the polling effect
StartedByEffect == {c \in pending' \ pending : c.kind = "check" /\ c.cause = "effect"}

\* polling is on: the hook is mounted with polling enabled
Polling(h) == h.mounted /\ h.enabled

\* C31: a polling hook has at most one interval timer set, and none while it
\* is unmounted or polling is disabled; the timer set is the one in
\* intervalRef, with the period intervalMinutes and the current check
\* function (every run of the effect clears the timer before it); a step
\* that turns polling on calls the check function once, at once (which
\* starts a check unless one is under way); and the effect starts a check
\* only when it runs for a mount or a change of the settings or of
\* the given check function, every other check being the timer's (or asked
\* for through checkNow).
C31_OnePollingTimer ==
    /\ [](/\ Cardinality(timers) <= 1
          /\ ~Polling(hook) => timers = {}
          /\ \A t \in timers : /\ t.id = hook.intervalRef
                                /\ t.ms = hook.intervalMinutes * 60 * 1000
                                /\ t.fn = hook.checkFn)
    /\ [][(Polling(hook') /\ ~Polling(hook))
            => /\ Cardinality(StartedByEffect) =
                    IF hook'.checkFn.isChecking \/ hook'.checkFn.isPulling
                    THEN 0 ELSE 1
               /\ Cardinality(timers') = 1]_vars
    /\ [][StartedByEffect # {} => hook'.effectCause \in {"mount", "settings"}]_vars

\* the places of the toast log this step has written
Added == (Len(toasts) + 1)..Len(toasts')

\* the 'Update Available' toasts this step has shown
ShownNow == {k \in Added : toasts'[k].op = "show"}

\* the toast log only grows
LogGrows ==
    /\ Len(toasts') >= Len(toasts)
    /\ SubSeq(toasts', 1, Len(toasts)) = toasts

\* a pull request has settled in this step
PullSettled == \E c \in pending \ pending' : c.kind = "pull"

\* no revision has had the 'Update Available' toast twice
ShownOncePerCommit ==
    \A i, j \in 1..Len(toasts) :
        (/\ toasts[i].op = "show"
         /\ toasts[j].op = "show"
         /\ toasts[i].commit = toasts[j].commit) => i = j

\* the toast of useAutoUpdate follows the recorded revision: a step shows
\* at most one toast, never for the revision in shownToastForCommitRef, and
\* records the revision and the toast's id; when a toast's id is held, the
\* step dismisses that toast just before showing the new one; and the
\* record, once set, goes back to null only in a step in which a pull
\* settles that leaves no update available and no toast id, as an installed
\* update does
ToastFollowsRecord ==
    /\ [][LogGrows]_vars
    /\ [][\A k \in ShownNow :
            /\ ShownNow = {k}
            /\ toasts'[k].commit # hook.shownToastForCommitRef
            /\ hook'.shownToastForCommitRef = toasts'[k].commit
            /\ hook'.toastIdRef = toasts'[k].id
            /\ hook.toastIdRef # NoId
                 => /\ k - 1 \in Added
                    /\ toasts'[k - 1] = Dismissed(hook.toastIdRef)]_vars
    /\ [][hook'.shownToastForCommitRef # hook.shownToastForCommitRef
            => \/ ShownNow # {}
               \/ /\ hook'.shownToastForCommitRef = NoCommit
                  /\ PullSettled
                  /\ hook'.toastIdRef = NoId
                  /\ hook'.mounted => ~hook'.updateAvailable]_vars

====
